---- MODULE Spec2Model ----
(***************************************************************************)
(* TrackGraph backend: the versioned dataset store, the response and       *)
(* derived-index caches keyed by the dataset version, and the metadata     *)
(* (image) cache.                                                          *)
(*                                                                         *)
(* The repository holds the store twice: main.py keeps its own module      *)
(* globals and serves the routes; history.py with                          *)
(* hydration_aggregation.py is the same store as a module with change      *)
(* listeners.  main.py does not import history.py, so the two sets of      *)
(* globals never influence each other; a behaviour exercises one of them,  *)
(* or the methods of the metadata cache on their own (variable unit).      *)
(***************************************************************************)
EXTENDS Integers, Sequences, FiniteSets, TLC

\* ---------------------------------------------------------------- bounds
\* The version counter is followed up to MaxVersion, the three response
\* caches together up to MaxEntries entries, and up to MaxPending started
\* prewarm closures wait to run.
MaxVersion == 2
MaxEntries == 2
MaxPending == 1
\* The lru_cache of the batch helpers is followed while it holds up to
\* MaxMemo id tuples (its own limit of 4000 is never reached).
MaxMemo == 1

\* ------------------------------------------------------------ value sets
None == "None"

\* What load_df() can find at the default source at the moment it reads it:
\* the packaged history, no file, an S3 object that cannot be fetched, or a
\* file the preparation rejects.
DefaultSources == {"d1"}
LoadFailures == {"missing", "unreachable", "malformed"}
LoadOutcomes == DefaultSources \cup LoadFailures

\* Uploaded files: a well-formed export and the rejected shapes.
UploadFiles == {"u1"}
BadUploads == {"no_filename", "empty", "unsupported", "unparseable", "missing_columns"}

\* int(df.shape[0]) of each prepared dataset
Rows(d) ==
    CASE d = "d1" -> 3
      [] d = "u1" -> 1
      [] OTHER -> 0

\* (start or "", end or "") pairs: one that filter_df accepts, one whose
\* start does not parse as a date.
GoodFilters == {<<"2021-01-01", "2022-01-01">>}
BadFilters == {<<"bad", "">>}
Filters == GoodFilters \cup BadFilters
Groups == {"artist", "album"}
Limits == {50, 200}

\* Catalog ids: the album view hydrates tracks, the artist view tracks and
\* artists.
TrackIds == {"t1"}
ArtistIds == {"a1"}
Ids == TrackIds \cup ArtistIds
\* What cache_image() stores under an id: a metadata object, or nothing
\* (the url parameter is Optional).
Urls == {"obj", None}

EmptyMap == [x \in {} |-> TRUE]
Put(f, k, v) == (k :> v) @@ f
Has(f, k) == k \in DOMAIN f

\* ----------------------------------------------------- main.py: the store
\* _prepare_history_dataframe(df): ValueError when a required column is
\* missing, else the normalised frame.
prepare_history_dataframe_lenient(raw) == [ok |-> TRUE, df |-> raw]

prepare_history_dataframe(raw) ==
    IF raw \in {"missing_columns", "malformed"}
    THEN [ok |-> FALSE, df |-> None]
    ELSE [ok |-> TRUE, df |-> raw]

\* load_df(): the prepared default dataset, or an exception.
load_df(outcome) ==
    IF outcome \in {"missing", "unreachable"}
    THEN [ok |-> FALSE, df |-> None]
    ELSE prepare_history_dataframe(outcome)

clear_response_caches(m) ==
    [m EXCEPT !.resp_cache_bubbles = EmptyMap,
              !.resp_cache_summary = EmptyMap,
              !.resp_cache_historical = EmptyMap]

\* main.py resets a global named _build_dicts_cache, which nothing reads;
\* the derived-index map _build_dicts_cache_map is left as it is.
bump_dataset_version_reset(m) ==
    clear_response_caches([m EXCEPT !.dataset_version = 1,
                                    !.build_dicts_cache = "reset"])

bump_dataset_version(m) ==
    clear_response_caches(
        [m EXCEPT !.dataset_version = @ + 1,
                  !.build_dicts_cache = "reset"])

\* get_df(): [ok, load, m]; the returned frame is m.df_cache, load is what
\* load_df() found if it was called.
get_df_bump_first(m, outcome) ==
    IF m.df_cache # None
    THEN [ok |-> TRUE, load |-> None, m |-> m]
    ELSE LET l == load_df(outcome)
             m1 == bump_dataset_version(m)
         IN IF ~l.ok
            THEN [ok |-> FALSE, load |-> outcome, m |-> m1]
            ELSE [ok |-> TRUE, load |-> outcome,
                  m |-> [m1 EXCEPT !.df_cache = l.df, !.data_source = "default"]]

\* The body of "if _df_cache is None": load_df() has ended with outcome,
\* m is what the globals hold at that moment.
get_df_load(m, outcome) ==
    LET l == load_df(outcome) IN
    IF ~l.ok
    THEN [ok |-> FALSE, load |-> outcome, m |-> m]
    ELSE LET m1 == bump_dataset_version([m EXCEPT !.df_cache = l.df])
             m2 == IF m1.data_source = "unknown"
                   THEN [m1 EXCEPT !.data_source = "default"]
                   ELSE m1
         IN [ok |-> TRUE, load |-> outcome, m |-> m2]

get_df(m, outcome) ==
    IF m.df_cache # None
    THEN [ok |-> TRUE, load |-> None, m |-> m]
    ELSE get_df_load(m, outcome)

\* filter_df raises 400 on a bound that is no date.
filter_ok(f) == f \in GoodFilters

\* build_dicts(df, filter_key): the three mappings of (snapshot, filter),
\* memoised under (_dataset_version, filter_key).
dicts_key(m, f) == <<m.dataset_version, f>>

build_dicts(m, df, f) ==
    LET key == dicts_key(m, f) IN
    IF Has(m.build_dicts_cache_map, key)
    THEN [value |-> m.build_dicts_cache_map[key], m |-> m]
    ELSE LET value == [snap |-> df, filter |-> f] IN
         [value |-> value,
          m |-> [m EXCEPT !.build_dicts_cache_map = Put(@, key, value)]]

\* ------------------------------------------- main.py: SpotifyImageCache
\* cache_image(name, url): self.cache[name] = url
cache_image_alone(ic, name, url) == [ic EXCEPT !.cache = (name :> url)]

cache_image(ic, name, url) == [ic EXCEPT !.cache = Put(@, name, url)]

get_cached_key(ic, name) == IF Has(ic.cache, name) THEN ic.cache[name] ELSE None

\* What the constructor can find at cache_file: the file as it was last
\* written, no file, bytes that are no JSON, bytes that are no UTF-8 text.
LocalFileStates == {"written", "missing", "corrupt", "undecodable"}
\* What s3.get_object gives when S3 is configured: the object as it was last
\* put, an error, or JSON that is no object.
S3Reads == {"ok", "fail", "not_a_map"}
IoOutcomes == {"ok", "fail"}

\* _load_cache_local(): [ok, value]; json.load raises UnicodeDecodeError on
\* bytes that are no UTF-8, which "except (json.JSONDecodeError, IOError)"
\* lets through.
load_cache_local(ic) ==
    CASE ic.local_state = "written" -> [ok |-> TRUE, value |-> ic.local_file]
      [] ic.local_state = "missing" -> [ok |-> TRUE, value |-> EmptyMap]
      [] ic.local_state = "corrupt" -> [ok |-> TRUE, value |-> EmptyMap]
      [] ic.local_state = "undecodable" -> [ok |-> FALSE, value |-> EmptyMap]

\* _load_cache_s3(): [is_dict, value]; None when S3 is not configured or
\* the read raised.
load_cache_s3(ic, s3read) ==
    IF ic.s3_configured /\ s3read = "ok"
    THEN [is_dict |-> TRUE, value |-> ic.s3_object]
    ELSE [is_dict |-> FALSE, value |-> EmptyMap]

\* __init__ and _load_cache(): [ok, ic].  found is what is at cache_file
\* when the process starts, io the outcome of writing the mirror.
load_cache(ic, found, s3read, io) ==
    LET ic0 == [ic EXCEPT !.cache = EmptyMap, !.local_state = found]
        s3_cache == load_cache_s3(ic0, s3read)
    IN IF s3_cache.is_dict /\ s3_cache.value # EmptyMap
       THEN [ok |-> TRUE,
             ic |-> IF io = "ok"
                    THEN [ic0 EXCEPT !.cache = s3_cache.value,
                                     !.local_file = s3_cache.value,
                                     !.local_state = "written"]
                    ELSE [ic0 EXCEPT !.cache = s3_cache.value]]
       ELSE LET l == load_cache_local(ic0) IN
            [ok |-> l.ok, ic |-> [ic0 EXCEPT !.cache = l.value]]

\* save_cache(): the map is written to the mirror file, then put to S3 if
\* S3 is configured; an IOError of the first and any exception of the
\* second are swallowed and leave the file or the object as it was.
save_cache_local_first(ic, io) ==
    IF io.local = "ok"
    THEN LET ic1 == [ic EXCEPT !.local_file = ic.cache, !.local_state = "written"]
         IN IF ic1.s3_configured /\ io.s3 = "ok"
            THEN [ic1 EXCEPT !.s3_object = ic.cache]
            ELSE ic1
    ELSE ic

save_cache(ic, io) ==
    LET ic1 == IF io.local = "ok"
               THEN [ic EXCEPT !.local_file = ic.cache, !.local_state = "written"]
               ELSE ic
    IN IF ic1.s3_configured /\ io.s3 = "ok"
       THEN [ic1 EXCEPT !.s3_object = ic.cache]
       ELSE ic1

RECURSIVE cache_all(_, _)
cache_all(ic, ids) ==
    IF ids = {} THEN ic
    ELSE LET i == CHOOSE x \in ids : TRUE IN
         cache_all(cache_image(ic, i, "obj"), ids \ {i})

\* An entry hydration can use: a dict with its "album" / "images".
Usable(ic, id) == Has(ic.cache, id) /\ ic.cache[id] = "obj"

\* What batch_tracks / batch_artists end with when hydration calls them for
\* the missing ids: the objects, an HTTPException (a non-200 answer of the
\* token or batch endpoint, missing credentials), or an exception of the
\* HTTP library (timeout, connection error).
CatalogAnswers == {"found", "http", "network"}
NoFetch == [tracks |-> "found", artists |-> "found"]

\* One block "resolve from the cache, fetch the misses inside
\* try/except HTTPException, cache what came, save if anything came":
\* [raised, ic, resolved].
resolve(ic, ids, answer, io) ==
    LET missing == {i \in ids : ~Usable(ic, i)} IN
    IF missing = {}
    THEN [raised |-> FALSE, ic |-> ic, resolved |-> ids]
    ELSE CASE answer = "found" ->
                  [raised |-> FALSE, ic |-> save_cache(cache_all(ic, missing), io),
                   resolved |-> ids]
           [] answer = "http" ->
                  [raised |-> FALSE, ic |-> ic, resolved |-> ids \ missing]
           [] answer = "network" ->
                  [raised |-> TRUE, ic |-> ic, resolved |-> ids \ missing]

\* The items of a grouped summary, in order: one per artist or album of the
\* filtered frame; each has a representative track, whose first artist is
\* the item's artist.
BubbleItems(df, g) == IF g = "artist" THEN <<"Artist A">> ELSE <<"Album X">>
ItemSet(items) == {items[i] : i \in 1..Len(items)}

\* _hydrate_bubble_images(items, group_by, ...): [ok, ic, images]; images
\* maps the items that got an image_url to where it came from, the track's
\* album art or, in the artist view, the artist's picture when that is
\* resolved.
hydrate_bubble_images(ic, items, g, fetch, io) ==
    LET t == resolve(ic, TrackIds, fetch.tracks, io) IN
    IF t.raised THEN [ok |-> FALSE, ic |-> t.ic, images |-> EmptyMap]
    ELSE IF t.resolved = {} THEN [ok |-> TRUE, ic |-> t.ic, images |-> EmptyMap]
    ELSE IF g = "album"
    THEN [ok |-> TRUE, ic |-> t.ic, images |-> [i \in ItemSet(items) |-> "album_art"]]
    ELSE LET a == resolve(t.ic, ArtistIds, fetch.artists, io) IN
         IF a.raised THEN [ok |-> FALSE, ic |-> a.ic, images |-> EmptyMap]
         ELSE [ok |-> TRUE, ic |-> a.ic,
               images |-> [i \in ItemSet(items) |->
                              IF a.resolved # {} THEN "artist_image" ELSE "album_art"]]

\* --------------------------------------------------- main.py: aggregation
\* aggregates(df, group_by, filter_key): the payload and the caches it
\* leaves.  A payload is named by what it was computed from: the snapshot,
\* the version current at that moment, the filter and the parameter.
\* [ok, m, ic, out]: an exception that leaves the hydration leaves
\* aggregates.
aggregates_hydrated_only(m, ic, df, g, f, fetch, io) ==
    LET d == build_dicts(m, df, f)
        items == BubbleItems(df, g)
        h == hydrate_bubble_images(ic, items, g, fetch, io)
    IN [ok |-> h.ok, m |-> d.m, ic |-> h.ic,
        out |-> [kind |-> "bubbles", snap |-> df, ver |-> m.dataset_version,
                 filter |-> f, group |-> g, dicts |-> d.value,
                 items |-> SelectSeq(items, LAMBDA i : i \in DOMAIN h.images),
                 images |-> h.images]]

aggregates(m, ic, df, g, f, fetch, io) ==
    LET d == build_dicts(m, df, f)
        items == BubbleItems(df, g)
        h == hydrate_bubble_images(ic, items, g, fetch, io)
    IN [ok |-> h.ok, m |-> d.m, ic |-> h.ic,
        out |-> [kind |-> "bubbles", snap |-> df, ver |-> m.dataset_version,
                 filter |-> f, group |-> g, dicts |-> d.value,
                 items |-> items, images |-> h.images]]

historical_data(m, df, limit, f) ==
    LET d == build_dicts(m, df, f) IN
    [m |-> d.m,
     out |-> [kind |-> "historical", snap |-> df, ver |-> m.dataset_version,
              filter |-> f, limit |-> limit, dicts |-> d.value]]

\* ------------------------------------------------------ main.py: routes
NoPayload == [kind |-> "none"]

Resp(op, status) ==
    [op |-> op, status |-> status, req |-> <<>>, hit |-> FALSE, load |-> None,
     file |-> None, payload |-> NoPayload, rows |-> 0, source |-> None, idempotent |-> FALSE,
     notified |-> <<>>, requests |-> <<>>, fetch |-> NoFetch]

Req(op, status, req) == [Resp(op, status) EXCEPT !.req = req]

bubbles_key_any_group(m, f, g) == <<m.dataset_version, f, "artist">>

bubbles_key(m, f, g) == <<m.dataset_version, f, g>>
summary_key(m, f) == <<m.dataset_version, f>>
historical_key(m, f, limit) == <<m.dataset_version, f, limit>>

\* Every route returns [m, ic, resp, spawn]: the globals and the metadata
\* cache it leaves, its response, and the prewarm closure it started (a set
\* of at most one).
Ret(m, ic, resp, spawn) ==
    [m |-> m, ic |-> ic, resp |-> resp, spawn |-> spawn]

\* GET /api/summary from "filter_df(get_df(), start, end)" on: r is what
\* get_df() returned, key the key computed before it was called.
api_summary_miss(ic, f, key, r) ==
    IF ~r.ok THEN Ret(r.m, ic, [Req("summary", 500, <<f>>) EXCEPT !.load = r.load], {})
    ELSE IF ~filter_ok(f)
    THEN Ret(r.m, ic, [Req("summary", 400, <<f>>) EXCEPT !.load = r.load], {})
    ELSE LET out == [kind |-> "summary", snap |-> r.m.df_cache,
                     ver |-> r.m.dataset_version, filter |-> f]
         IN Ret([r.m EXCEPT !.resp_cache_summary = Put(@, key, out)], ic,
                [Req("summary", 200, <<f>>) EXCEPT !.load = r.load, !.payload = out],
                {})

api_summary(m, ic, f, outcome) ==
    LET key == summary_key(m, f) IN
    IF Has(m.resp_cache_summary, key)
    THEN Ret(m, ic, [Req("summary", 200, <<f>>) EXCEPT !.hit = TRUE,
                        !.payload = m.resp_cache_summary[key]], {})
    ELSE api_summary_miss(ic, f, key, get_df(m, outcome))

api_bubbles(m, ic, g, f, outcome, fetch, io) ==
    LET key == bubbles_key(m, f, g) IN
    IF Has(m.resp_cache_bubbles, key)
    THEN Ret(m, ic, [Req("bubbles", 200, <<f, g>>) EXCEPT !.hit = TRUE,
                        !.payload = m.resp_cache_bubbles[key]], {})
    ELSE LET r == get_df(m, outcome) IN
         IF ~r.ok THEN Ret(r.m, ic, [Req("bubbles", 500, <<f, g>>) EXCEPT !.load = r.load], {})
         ELSE IF ~filter_ok(f)
         THEN Ret(r.m, ic, [Req("bubbles", 400, <<f, g>>) EXCEPT !.load = r.load], {})
         ELSE LET a == aggregates(r.m, ic, r.m.df_cache, g, f, fetch, io)
              IN IF ~a.ok
                 THEN Ret(a.m, a.ic, [Req("bubbles", 500, <<f, g>>) EXCEPT
                                         !.load = r.load, !.fetch = fetch], {})
                 ELSE Ret([a.m EXCEPT !.resp_cache_bubbles = Put(@, key, a.out)], a.ic,
                          [Req("bubbles", 200, <<f, g>>) EXCEPT !.load = r.load,
                               !.payload = a.out, !.fetch = fetch],
                          {[filter |-> f, group |-> g]})

api_historical_data(m, ic, f, limit, outcome) ==
    LET key == historical_key(m, f, limit) IN
    IF Has(m.resp_cache_historical, key)
    THEN Ret(m, ic, [Req("historical", 200, <<f, limit>>) EXCEPT !.hit = TRUE,
                        !.payload = m.resp_cache_historical[key]], {})
    ELSE LET r == get_df(m, outcome) IN
         IF ~r.ok THEN Ret(r.m, ic, [Req("historical", 500, <<f, limit>>) EXCEPT !.load = r.load], {})
         ELSE IF ~filter_ok(f)
         THEN Ret(r.m, ic, [Req("historical", 400, <<f, limit>>) EXCEPT !.load = r.load], {})
         ELSE LET h == historical_data(r.m, r.m.df_cache, limit, f)
              IN Ret([h.m EXCEPT !.resp_cache_historical = Put(@, key, h.out)], ic,
                     [Req("historical", 200, <<f, limit>>) EXCEPT !.load = r.load, !.payload = h.out],
                     {})

\* _prewarm_other_views(): the closure api_bubbles starts on a thread.  It
\* reads _dataset_version when it runs; any exception ends it silently.
other_group(g) == IF g = "artist" THEN "album" ELSE "artist"

prewarm_bubbles(m, ic, task, outcome, fetch, io) ==
    LET other_key == bubbles_key(m, task.filter, other_group(task.group)) IN
    IF Has(m.resp_cache_bubbles, other_key)
    THEN [ok |-> TRUE, load |-> None, m |-> m, ic |-> ic]
    ELSE LET r == get_df(m, outcome) IN
         IF ~r.ok \/ ~filter_ok(task.filter)
         THEN [ok |-> FALSE, load |-> r.load, m |-> r.m, ic |-> ic]
         ELSE LET a == aggregates(r.m, ic, r.m.df_cache, other_group(task.group),
                                  task.filter, fetch, io)
              IN IF ~a.ok
                 THEN [ok |-> FALSE, load |-> r.load, m |-> a.m, ic |-> a.ic]
                 ELSE [ok |-> TRUE, load |-> r.load,
                       m |-> [a.m EXCEPT !.resp_cache_bubbles = Put(@, other_key, a.out)],
                       ic |-> a.ic]

prewarm_historical(m, task, outcome) ==
    LET hist_key == historical_key(m, task.filter, 200) IN
    IF Has(m.resp_cache_historical, hist_key)
    THEN [load |-> None, m |-> m]
    ELSE LET r == get_df(m, outcome) IN
         IF ~r.ok \/ ~filter_ok(task.filter)
         THEN [load |-> r.load, m |-> r.m]
         ELSE LET h == historical_data(r.m, r.m.df_cache, 200, task.filter)
              IN [load |-> r.load,
                  m |-> [h.m EXCEPT !.resp_cache_historical = Put(@, hist_key, h.out)]]

prewarm_other_views_raising(m, ic, task, outcome, fetch, io) ==
    LET b == prewarm_bubbles(m, ic, task, outcome, fetch, io) IN
    IF ~b.ok
    THEN Ret(b.m, b.ic, [Req("prewarm", 500, <<task>>) EXCEPT !.load = b.load,
                            !.fetch = fetch], {})
    ELSE Ret(prewarm_historical(b.m, task, outcome).m, b.ic,
             [Req("prewarm", 0, <<task>>) EXCEPT !.fetch = fetch], {})

prewarm_other_views(m, ic, task, outcome, fetch, io) ==
    LET b == prewarm_bubbles(m, ic, task, outcome, fetch, io) IN
    IF ~b.ok
    THEN Ret(b.m, b.ic, [Req("prewarm", 0, <<task>>) EXCEPT !.load = b.load,
                            !.fetch = fetch], {})
    ELSE LET h == prewarm_historical(b.m, task, outcome)
         IN Ret(h.m, b.ic,
                [Req("prewarm", 0, <<task>>) EXCEPT
                     !.load = IF b.load # None THEN b.load ELSE h.load,
                     !.fetch = fetch], {})

\* POST /api/upload_history: every rejection is raised before the globals
\* are assigned.
api_upload_history(m, ic, file) ==
    LET reject == Ret(m, ic, [Resp("upload", 400) EXCEPT !.file = file], {}) IN
    IF file = "no_filename" THEN reject
    ELSE IF file = "empty" THEN reject
    ELSE IF file = "unsupported" THEN reject
    ELSE IF file = "unparseable" THEN reject
    ELSE LET p == prepare_history_dataframe(file) IN
         IF ~p.ok THEN reject
         ELSE LET m1 == bump_dataset_version(
                            [m EXCEPT !.df_cache = p.df, !.data_source = "uploaded"])
              IN Ret(m1, ic, [Resp("upload", 200) EXCEPT !.file = file,
                                 !.rows = Rows(p.df), !.source = "uploaded"], {})

\* POST /api/use_default_history
api_use_default_history_reload(m, ic, outcome) ==
    LET l == load_df(outcome) IN
    IF ~l.ok THEN Ret(m, ic, [Resp("use_default", 500) EXCEPT !.load = outcome], {})
    ELSE LET m1 == bump_dataset_version(
                       [m EXCEPT !.df_cache = l.df, !.data_source = "default"])
         IN Ret(m1, ic, [Resp("use_default", 200) EXCEPT !.rows = Rows(l.df),
                            !.source = "default", !.load = outcome], {})

\* The route from "_df_cache = load_df()" on.
api_use_default_history_load(m, ic, outcome) ==
    LET l == load_df(outcome) IN
    IF ~l.ok THEN Ret(m, ic, [Resp("use_default", 500) EXCEPT !.load = outcome], {})
    ELSE LET m1 == bump_dataset_version(
                       [m EXCEPT !.df_cache = l.df, !.data_source = "default"])
         IN Ret(m1, ic, [Resp("use_default", 200) EXCEPT !.rows = Rows(l.df),
                            !.source = "default", !.load = outcome], {})

api_use_default_history(m, ic, outcome) ==
    IF m.data_source = "default" /\ m.df_cache # None
    THEN Ret(m, ic, [Resp("use_default", 200) EXCEPT !.rows = Rows(m.df_cache),
                        !.source = "default", !.idempotent = TRUE], {})
    ELSE api_use_default_history_load(m, ic, outcome)

\* -------------------------------------------- main.py: the catalog client
\* requests.get(..., params={"ids": ",".join(chunk)}) with 50 ids at most
BatchSize == 50

\* Id lists handed to the batch helpers: ids are numbered, a list is the
\* first n of them, or one id twice.
Lengths == {0, BatchSize, BatchSize + 1, 2 * BatchSize + 1}
IdLists == {[i \in 1..n |-> i] : n \in Lengths} \cup {<<1, 1>>}
Kinds == {"tracks", "artists"}

\* time.time() when a call starts, in seconds, and the lifetimes the token
\* endpoint hands out (3600 is also the default of data.get("expires_in")).
Times == {0, 30}
ExpiresIn == {90, 3600}
NoToken == [set |-> FALSE, issued |-> 0]
Token(now) == [set |-> TRUE, issued |-> now]

\* What an HTTP request meets: a 200 response, another status, or an
\* exception of the HTTP library (timeout, connection error).
HttpOutcomes == {"ok", "status", "network"}

\* Ids the catalog does not know: it answers null for them.
UnknownIds == {BatchSize + 1}

\* The environment of one call: the clock, the token endpoint's answer, and
\* the batch request that does not succeed (0: none) and how.
Envs(now_from, max_bad) ==
    {e \in [now : {t \in Times : t >= now_from},
            token : HttpOutcomes,
            expires_in : ExpiresIn,
            bad : 0..max_bad,
            bad_kind : {"status", "network"}] :
        /\ e.token # "ok" => e.expires_in = 3600
        /\ e.bad = 0 => e.bad_kind = "status"}

\* _chunks(seq, n): seq[i:i+n] for i = 0, n, 2n, ...
chunks_dropping_tail(seq, n) ==
    IF Len(seq) < n THEN <<>>
    ELSE <<SubSeq(seq, 1, n)>>

RECURSIVE chunks(_, _)
chunks(seq, n) ==
    IF Len(seq) = 0 THEN <<>>
    ELSE IF Len(seq) <= n THEN <<seq>>
    ELSE <<SubSeq(seq, 1, n)>> \o chunks(SubSeq(seq, n + 1, Len(seq)), n)

\* get_app_token_sync() and get_app_token(): [ok, status, token, tc, log];
\* tc is _token_cache, log the requests sent.
TokenValid(tc, now) == tc.access_token.set /\ tc.expires_at - 60 > now

get_app_token_always_fresh(tc, credentials, env) ==
    IF ~credentials
    THEN [ok |-> FALSE, status |-> 503, token |-> NoToken, tc |-> tc, log |-> <<>>]
    ELSE LET log == <<[to |-> "token", ids |-> <<>>]>> IN
         IF env.token = "network"
         THEN [ok |-> FALSE, status |-> 500, token |-> NoToken, tc |-> tc, log |-> log]
         ELSE IF env.token = "status"
         THEN [ok |-> FALSE, status |-> 502, token |-> NoToken, tc |-> tc, log |-> log]
         ELSE [ok |-> TRUE, status |-> 200, token |-> Token(env.now),
               tc |-> [access_token |-> Token(env.now),
                       expires_at |-> env.now + env.expires_in],
               log |-> log]

get_app_token(tc, credentials, env) ==
    IF TokenValid(tc, env.now)
    THEN [ok |-> TRUE, status |-> 200, token |-> tc.access_token, tc |-> tc, log |-> <<>>]
    ELSE IF ~credentials
    THEN [ok |-> FALSE, status |-> 503, token |-> NoToken, tc |-> tc, log |-> <<>>]
    ELSE LET log == <<[to |-> "token", ids |-> <<>>]>> IN
         IF env.token = "network"
         THEN [ok |-> FALSE, status |-> 500, token |-> NoToken, tc |-> tc, log |-> log]
         ELSE IF env.token = "status"
         THEN [ok |-> FALSE, status |-> 502, token |-> NoToken, tc |-> tc, log |-> log]
         ELSE [ok |-> TRUE, status |-> 200, token |-> Token(env.now),
               tc |-> [access_token |-> Token(env.now),
                       expires_at |-> env.now + env.expires_in],
               log |-> log]

\* data.get("tracks", []) of a 200 response: one entry per id asked for,
\* null for an id the catalog does not know.
CatalogObject(kind, id) == [kind |-> kind, id |-> id]
Null == [kind |-> "null", id |-> 0]
batch_response(kind, chunk, env) ==
    [i \in 1..Len(chunk) |->
        IF chunk[i] \in UnknownIds THEN Null ELSE CatalogObject(kind, chunk[i])]

\* The loop of batch_tracks / batch_artists from the k-th chunk on:
\* [ok, status, out, tc, log].
RECURSIVE batch_loop_keeping_partial(_, _, _, _, _, _, _, _)
batch_loop_keeping_partial(kind, cs, k, out, tc, log, credentials, env) ==
    IF k > Len(cs)
    THEN [ok |-> TRUE, status |-> 200, out |-> out, tc |-> tc, log |-> log]
    ELSE LET t == get_app_token(tc, credentials, env)
             log1 == log \o t.log
         IN IF ~t.ok
            THEN [ok |-> TRUE, status |-> 200, out |-> out, tc |-> t.tc, log |-> log1]
            ELSE LET log2 == Append(log1, [to |-> kind, ids |-> cs[k]]) IN
                 IF env.bad = k
                 THEN [ok |-> TRUE, status |-> 200, out |-> out, tc |-> t.tc, log |-> log2]
                 ELSE batch_loop_keeping_partial(kind, cs, k + 1,
                                 out \o batch_response(kind, cs[k], env),
                                 t.tc, log2, credentials, env)

RECURSIVE batch_loop(_, _, _, _, _, _, _, _)
batch_loop(kind, cs, k, out, tc, log, credentials, env) ==
    IF k > Len(cs)
    THEN [ok |-> TRUE, status |-> 200, out |-> out, tc |-> tc, log |-> log]
    ELSE LET t == get_app_token(tc, credentials, env)
             log1 == log \o t.log
         IN IF ~t.ok
            THEN [ok |-> FALSE, status |-> t.status, out |-> <<>>, tc |-> t.tc, log |-> log1]
            ELSE LET log2 == Append(log1, [to |-> kind, ids |-> cs[k]]) IN
                 IF env.bad = k
                 THEN [ok |-> FALSE,
                       status |-> IF env.bad_kind = "status" THEN 502 ELSE 500,
                       out |-> <<>>, tc |-> t.tc, log |-> log2]
                 ELSE batch_loop(kind, cs, k + 1,
                                 out \o batch_response(kind, cs[k], env),
                                 t.tc, log2, credentials, env)

\* batch_tracks(ids_tuple) / batch_artists(ids_tuple) behind lru_cache:
\* [c, resp]; a call that raised stores nothing.
batch(c, kind, ids, env) ==
    LET key == <<kind, ids>>
        op == IF kind = "tracks" THEN "batch_tracks" ELSE "batch_artists"
    IN IF Has(c.memo, key)
       THEN [c |-> [c EXCEPT !.now = env.now],
             resp |-> [Req(op, 200, <<kind, ids, env>>) EXCEPT !.hit = TRUE,
                           !.payload = [kind |-> "objects", out |-> c.memo[key]]]]
       ELSE LET r == batch_loop(kind, chunks(ids, BatchSize), 1, <<>>, c.token_cache,
                                <<>>, c.credentials, env)
                c1 == [c EXCEPT !.now = env.now, !.token_cache = r.tc]
            IN IF r.ok
               THEN [c |-> [c1 EXCEPT !.memo = Put(@, key, r.out)],
                     resp |-> [Req(op, 200, <<kind, ids, env>>) EXCEPT !.requests = r.log,
                                   !.payload = [kind |-> "objects", out |-> r.out]]]
               ELSE [c |-> c1,
                     resp |-> [Req(op, r.status, <<kind, ids, env>>) EXCEPT !.requests = r.log]]

batch_tracks(c, ids, env) == batch(c, "tracks", ids, env)
batch_artists(c, ids, env) == batch(c, "artists", ids, env)

\* ------------------------------------- main.py: the batch lookup routes
\* ids=... of a request: nothing, one id, a list with a repeated id and an
\* id the catalog does not know, and a list of two chunks.
RouteLists ==
    {<<>>, <<1>>, <<2, BatchSize + 1, 1, 2>>, [i \in 1..(BatchSize + 1) |-> i]}

\* A legacy entry of static_data.json: a string, not a dict.
Legacy == [kind |-> "legacy", id |-> 0]

\* list(dict.fromkeys(all_ids))
dedupe_keeping_all(ids) == ids

\* the first occurrence of every id, in order
dedupe(ids) ==
    LET firsts == SelectSeq([i \in 1..Len(ids) |-> i],
                            LAMBDA i : \A j \in 1..(i - 1) : ids[j] # ids[i])
    IN [n \in 1..Len(firsts) |-> ids[firsts[n]]]

\* "isinstance(cached, dict) and cached.get(...)": /api/tracks-batch wants
\* the "artists" of a track object, /api/artists-batch any object with an
\* "id".
RouteHit(ic, kind, id) ==
    /\ Has(ic.cache, id)
    /\ IF kind = "tracks" THEN ic.cache[id].kind = "tracks"
       ELSE ic.cache[id].kind \in {"tracks", "artists"}

\* The chunk loop of a route from the k-th chunk on: [ok, status, fetched,
\* log].  A non-200 answer is HTTPException(502) in tracks_batch and
\* r.raise_for_status(), an httpx.HTTPStatusError, in artists_batch.
RECURSIVE route_loop(_, _, _, _, _, _)
route_loop(kind, cs, k, fetched, log, env) ==
    IF k > Len(cs)
    THEN [ok |-> TRUE, status |-> 200, fetched |-> fetched, log |-> log]
    ELSE LET log1 == Append(log, [to |-> kind, ids |-> cs[k]]) IN
         IF env.bad = k
         THEN [ok |-> FALSE,
               status |-> IF kind = "tracks" /\ env.bad_kind = "status" THEN 502 ELSE 500,
               fetched |-> <<>>, log |-> log1]
         ELSE route_loop(kind, cs, k + 1,
                         fetched \o SelectSeq(batch_response(kind, cs[k], env),
                                              LAMBDA o : o # Null),
                         log1, env)

RECURSIVE cache_each(_, _)
cache_each(ic, objs) ==
    IF Len(objs) = 0 THEN ic
    ELSE cache_each(cache_image(ic, Head(objs).id, Head(objs)), Tail(objs))

\* by_id = {t["id"]: t for t in cached_objs + fetched};
\* final = [by_id[i] for i in unique_ids if i in by_id]
final_objects(unique_ids, objs) ==
    LET by_id == [i \in {objs[n].id : n \in 1..Len(objs)} |->
                     objs[CHOOSE n \in 1..Len(objs) :
                              /\ objs[n].id = i
                              /\ \A n2 \in (n + 1)..Len(objs) : objs[n2].id # i]]
        known == SelectSeq(unique_ids, LAMBDA i : i \in DOMAIN by_id)
    IN [n \in 1..Len(known) |-> by_id[known[n]]]

\* GET /api/tracks-batch and GET /api/artists-batch: [c, ic, resp]
route_batch(c, ic, kind, ids, env, io) ==
    LET op == IF kind = "tracks" THEN "tracks_batch" ELSE "artists_batch"
        unique_ids == dedupe(ids)
        missing_ids == SelectSeq(unique_ids, LAMBDA i : ~RouteHit(ic, kind, i))
        hit_ids == SelectSeq(unique_ids, LAMBDA i : RouteHit(ic, kind, i))
        cached_objs == [n \in 1..Len(hit_ids) |-> ic.cache[hit_ids[n]]]
        label(status) == Req(op, status, <<kind, ids, env, io>>)
    IN IF Len(missing_ids) > 0 /\ ~c.demo_mode /\ c.credentials
       THEN LET t == get_app_token(c.token_cache, c.credentials, env)
                c1 == [c EXCEPT !.token_cache = t.tc]
            IN IF ~t.ok
               THEN [c |-> c1, ic |-> ic,
                     resp |-> [label(t.status) EXCEPT !.requests = t.log]]
               ELSE LET l == route_loop(kind, chunks(missing_ids, BatchSize), 1,
                                        <<>>, t.log, env)
                    IN IF ~l.ok
                       THEN [c |-> c1, ic |-> ic,
                             resp |-> [label(l.status) EXCEPT !.requests = l.log]]
                       ELSE [c |-> c1,
                             ic |-> save_cache(cache_each(ic, l.fetched), io),
                             resp |-> [label(200) EXCEPT !.requests = l.log,
                                           !.payload =
                                               [kind |-> "objects",
                                                out |-> final_objects(unique_ids,
                                                            cached_objs \o l.fetched)]]]
       ELSE [c |-> c, ic |-> ic,
             resp |-> [label(200) EXCEPT
                           !.payload = [kind |-> "objects",
                                        out |-> final_objects(unique_ids, cached_objs)]]]

tracks_batch(c, ic, ids, env, io) == route_batch(c, ic, "tracks", ids, env, io)
artists_batch(c, ic, ids, env, io) == route_batch(c, ic, "artists", ids, env, io)

\* ------------------------------- history.py and hydration_aggregation.py
\* Change listeners: hydration_aggregation registers _clear_dict_cache when
\* it is imported; the other two stand for any other subscriber, one that
\* raises and one that returns.
Listeners == {"clear_dict_cache", "raising", "quiet"}

\* listener(version): [h, raised]
call_listener(h, listener, version) ==
    CASE listener = "clear_dict_cache" ->
             [h |-> [h EXCEPT !.build_dicts_cache_map = EmptyMap], raised |-> FALSE]
      [] listener = "raising" -> [h |-> h, raised |-> TRUE]
      [] listener = "quiet" -> [h |-> h, raised |-> FALSE]

\* _notify_change(version): every listener of list(_change_listeners) from
\* the i-th on is called; "except Exception: continue".  log lists the
\* calls made, raised tells that an exception left the loop.
RECURSIVE notify_from_propagating(_, _, _, _)
notify_from_propagating(h, listeners, i, version) ==
    IF i > Len(listeners)
    THEN [h |-> h, log |-> <<>>, raised |-> FALSE]
    ELSE LET c == call_listener(h, listeners[i], version) IN
         IF c.raised
         THEN [h |-> c.h, log |-> <<<<listeners[i], version>>>>, raised |-> TRUE]
         ELSE LET rest == notify_from_propagating(c.h, listeners, i + 1, version)
              IN [h |-> rest.h, log |-> <<<<listeners[i], version>>>> \o rest.log,
                  raised |-> rest.raised]

RECURSIVE notify_from(_, _, _, _)
notify_from(h, listeners, i, version) ==
    IF i > Len(listeners)
    THEN [h |-> h, log |-> <<>>, raised |-> FALSE]
    ELSE LET c == call_listener(h, listeners[i], version)
             rest == notify_from(c.h, listeners, i + 1, version)
         IN [h |-> rest.h, log |-> <<<<listeners[i], version>>>> \o rest.log,
             raised |-> rest.raised]

notify_change(h, version) == notify_from(h, h.change_listeners, 1, version)

\* register_on_change(callback)
register_on_change(h, callback) ==
    IF \E i \in 1..Len(h.change_listeners) : h.change_listeners[i] = callback
    THEN h
    ELSE [h EXCEPT !.change_listeners = Append(@, callback)]

\* history._bump_dataset_version(): [h, log, raised]
history_bump_dataset_version(h) ==
    LET h1 == [h EXCEPT !.dataset_version = @ + 1] IN
    notify_change(h1, h1.dataset_version)

\* history.get_df(): [h, resp]
\* The body of "if _df_cache is None" once load_df() has ended.
history_get_df_load(h, outcome) ==
    LET l == load_df(outcome) IN
    IF ~l.ok THEN [h |-> h, resp |-> [Resp("get_df", 500) EXCEPT !.load = outcome]]
    ELSE LET h1 == [h EXCEPT !.df_cache = l.df]
             h2 == IF h1.data_source = "unknown"
                   THEN [h1 EXCEPT !.data_source = "default"]
                   ELSE h1
             b == history_bump_dataset_version(h2)
         IN [h |-> b.h,
             resp |-> [Resp("get_df", IF b.raised THEN 500 ELSE 200) EXCEPT
                           !.load = outcome, !.notified = b.log,
                           !.payload = IF b.raised THEN NoPayload
                                       ELSE [kind |-> "frame", snap |-> b.h.df_cache]]]

history_get_df(h, outcome) ==
    IF h.df_cache # None
    THEN [h |-> h,
          resp |-> [Resp("get_df", 200) EXCEPT
                        !.payload = [kind |-> "frame", snap |-> h.df_cache]]]
    ELSE history_get_df_load(h, outcome)

\* history.set_df(df, source)
history_set_df(h, df, source) ==
    LET b == history_bump_dataset_version(
                 [h EXCEPT !.df_cache = df, !.data_source = source])
    IN [h |-> b.h,
        resp |-> [Resp("set_df", IF b.raised THEN 500 ELSE 200) EXCEPT
                      !.file = df, !.notified = b.log, !.source = source,
                      !.rows = Rows(df)]]

\* history.clear_cache()
clear_cache(h) == [h EXCEPT !.df_cache = None]

\* hydration_aggregation.build_dicts(df, filter_key), memoised under
\* (history.get_dataset_version(), filter_key).
history_build_dicts(h, df, f) ==
    LET key == <<h.dataset_version, f>> IN
    IF Has(h.build_dicts_cache_map, key)
    THEN [value |-> h.build_dicts_cache_map[key], h |-> h]
    ELSE LET value == [snap |-> df, filter |-> f] IN
         [value |-> value,
          h |-> [h EXCEPT !.build_dicts_cache_map = Put(@, key, value)]]

\* ------------------------------------------------------------- the state
VARIABLES
    unit,       \* what the behaviour exercises: "main", "history", "image_cache",
                \* under SpecCatalog "catalog", under SpecBatch "batch_routes"
    catalog,    \* the catalog client: _token_cache, the lru_cache of the batch
                \* helpers, whether the credentials are set, the clock
    main,       \* main.py: _df_cache, _dataset_version, _data_source, the caches
    hist,       \* history.py's globals and hydration_aggregation's map
    image,      \* image_cache: .cache in memory, .local_file its mirror on disk
                \* (.local_state what is at that path), .s3_object the S3 copy
    prewarm,    \* started _prewarm_other_views closures that have not run yet
    last,       \* the call that ended last: its response
    thread,     \* SpecConc: where each worker thread's call stands
    uploaded    \* SpecConc: the frame of the last successful upload while no
                \* later upload or revert has been requested, else None

vars == <<unit, catalog, main, hist, image, prewarm, last, thread, uploaded>>

\* Worker threads of the server's pool; a call waits in load_df() with what
\* it computed before.
Threads == {"w1", "w2"}
Idle == [at |-> "idle"]

Tasks == [filter : GoodFilters, group : Groups]

MainInit ==
    [df_cache |-> None, dataset_version |-> 0, data_source |-> "unknown",
     build_dicts_cache |-> "undefined",
     resp_cache_bubbles |-> EmptyMap, resp_cache_summary |-> EmptyMap,
     resp_cache_historical |-> EmptyMap, build_dicts_cache_map |-> EmptyMap]

HistInit ==
    [df_cache |-> None, dataset_version |-> 0, data_source |-> "unknown",
     change_listeners |-> <<>>, build_dicts_cache_map |-> EmptyMap]

\* image_cache before anything was cached: static_data.json holds {}.
ImageInit(s3_configured) ==
    [cache |-> EmptyMap, local_file |-> EmptyMap, local_state |-> "written",
     s3_configured |-> s3_configured, s3_object |-> EmptyMap]

CatalogInit(credentials) ==
    [token_cache |-> [access_token |-> NoToken, expires_at |-> 0],
     memo |-> EmptyMap, credentials |-> credentials, demo_mode |-> FALSE, now |-> 0]

Init ==
    /\ unit \in {"main", "history", "image_cache"}
    /\ catalog = CatalogInit(TRUE)
    /\ main = MainInit
    /\ hist = HistInit
    /\ \E s3_configured \in BOOLEAN :
           /\ s3_configured => unit = "image_cache"
           /\ image = ImageInit(s3_configured)
    /\ prewarm = [t \in Tasks |-> 0]
    /\ last = Resp("init", 0)
    /\ thread = [t \in Threads |-> Idle]
    /\ uploaded = None

\* The inputs a call can read: load_df() runs only when there is no frame,
\* the catalog is asked only when a payload is computed and only for ids
\* the metadata cache lacks (for artists only in the artist view and once a
\* track is resolved), the mirror is written only when something was
\* fetched.
LoadInputs(m) == IF m.df_cache = None THEN LoadOutcomes ELSE {None}
AsksTracks == \E i \in TrackIds : ~Usable(image, i)
AsksArtists(g, fetch) ==
    /\ g = "artist"
    /\ \E i \in ArtistIds : ~Usable(image, i)
    /\ AsksTracks => fetch.tracks = "found"
FetchInputs(computes, g) ==
    IF ~computes THEN {NoFetch}
    ELSE {fetch \in [tracks : CatalogAnswers, artists : CatalogAnswers] :
             /\ ~AsksTracks => fetch.tracks = "found"
             /\ ~AsksArtists(g, fetch) => fetch.artists = "found"}
IoInputs(computes, g, fetch) ==
    IF computes /\ ((AsksTracks /\ fetch.tracks = "found")
                     \/ (AsksArtists(g, fetch) /\ fetch.artists = "found"))
    THEN [local : IoOutcomes, s3 : IF image.s3_configured THEN IoOutcomes ELSE {"ok"}]
    ELSE {[local |-> "ok", s3 |-> "ok"]}

Entries(m) ==
    Cardinality(DOMAIN m.resp_cache_bubbles) + Cardinality(DOMAIN m.resp_cache_summary)
        + Cardinality(DOMAIN m.resp_cache_historical)

RECURSIVE Sum(_, _)
Sum(f, S) ==
    IF S = {} THEN 0
    ELSE LET x == CHOOSE y \in S : TRUE IN f[x] + Sum(f, S \ {x})

Pending == Sum(prewarm, Tasks)

\* r is what a route returned: install it.
Finish(r) ==
    /\ r.m.dataset_version <= MaxVersion
    /\ Entries(r.m) <= MaxEntries
    /\ r.spawn # {} => Pending < MaxPending
    /\ main' = r.m
    /\ image' = r.ic
    /\ prewarm' = [t \in Tasks |-> IF t \in r.spawn THEN prewarm[t] + 1 ELSE prewarm[t]]
    /\ last' = r.resp
    /\ UNCHANGED <<unit, catalog, hist, thread, uploaded>>

ApiSummary ==
    /\ unit = "main"
    /\ \E f \in Filters, outcome \in LoadInputs(main) :
           Finish(api_summary(main, image, f, outcome))

ApiBubbles ==
    /\ unit = "main"
    /\ \E g \in Groups, f \in Filters, outcome \in LoadInputs(main) :
         LET computes == /\ filter_ok(f)
                         /\ outcome \notin LoadFailures
                         /\ ~Has(main.resp_cache_bubbles, bubbles_key(main, f, g))
         IN \E fetch \in FetchInputs(computes, g) :
            \E io \in IoInputs(computes, g, fetch) :
                Finish(api_bubbles(main, image, g, f, outcome, fetch, io))

ApiHistoricalData ==
    /\ unit = "main"
    /\ \E f \in Filters, limit \in Limits, outcome \in LoadInputs(main) :
           Finish(api_historical_data(main, image, f, limit, outcome))

\* r is what the closure left when it ended: install it.  The thread is
\* followed while the response caches hold up to max_entries entries.
PrewarmFinish(r, task, max_entries) ==
    /\ r.m.dataset_version <= MaxVersion
    /\ Entries(r.m) <= max_entries
    /\ main' = r.m
    /\ image' = r.ic
    /\ prewarm' = [prewarm EXCEPT ![task] = @ - 1]
    /\ last' = r.resp
    /\ UNCHANGED <<unit, catalog, hist, thread, uploaded>>

PrewarmOtherViews ==
    /\ unit = "main"
    /\ \E task \in Tasks, outcome \in LoadInputs(main) :
         LET computes == /\ outcome \notin LoadFailures
                         /\ ~Has(main.resp_cache_bubbles,
                                 bubbles_key(main, task.filter, other_group(task.group)))
         IN \E fetch \in FetchInputs(computes, other_group(task.group)) :
            \E io \in IoInputs(computes, other_group(task.group), fetch) :
              /\ prewarm[task] > 0
              /\ PrewarmFinish(prewarm_other_views(main, image, task, outcome, fetch, io),
                               task, MaxEntries)

ApiUploadHistory ==
    /\ unit = "main"
    /\ \E file \in UploadFiles \cup BadUploads :
           Finish(api_upload_history(main, image, file))

ApiUseDefaultHistory ==
    /\ unit = "main"
    /\ \E outcome \in (IF main.data_source = "default" THEN LoadInputs(main)
                        ELSE LoadOutcomes) :
           Finish(api_use_default_history(main, image, outcome))

\* history.py's functions, one call each.
HistFinish(h, resp) ==
    /\ h.dataset_version <= MaxVersion
    /\ hist' = h
    /\ last' = resp
    /\ UNCHANGED <<unit, catalog, main, image, prewarm, thread, uploaded>>

RegisterOnChange ==
    /\ unit = "history"
    /\ \E callback \in Listeners :
           HistFinish(register_on_change(hist, callback), Resp("register_on_change", 200))

HistoryGetDf ==
    /\ unit = "history"
    /\ \E outcome \in LoadInputs(hist) :
           LET r == history_get_df(hist, outcome) IN HistFinish(r.h, r.resp)

HistorySetDf ==
    /\ unit = "history"
    /\ \E df \in UploadFiles \cup DefaultSources :
           LET r == history_set_df(hist, df,
                        IF df \in UploadFiles THEN "uploaded" ELSE "default")
           IN HistFinish(r.h, r.resp)

ClearCache ==
    /\ unit = "history"
    /\ HistFinish(clear_cache(hist), Resp("clear_cache", 200))

\* hydration_aggregation is imported (its listener is registered) and one of
\* its aggregations builds the mappings of the current frame.
HistoryBuildDicts ==
    /\ unit = "history"
    /\ \E i \in 1..Len(hist.change_listeners) :
           hist.change_listeners[i] = "clear_dict_cache"
    /\ hist.df_cache # None
    /\ \E f \in GoodFilters :
           LET r == history_build_dicts(hist, hist.df_cache, f)
           IN HistFinish(r.h, [Resp("build_dicts", 200) EXCEPT !.hit = (r.h = hist),
                                  !.payload = [kind |-> "dicts", value |-> r.value]])

\* SpotifyImageCache's methods, one call each; none runs on an object whose
\* constructor raised.
ImageFinish(ic, resp) ==
    /\ ~(last.op = "construct" /\ last.status = 500)
    /\ image' = ic
    /\ last' = resp
    /\ UNCHANGED <<unit, catalog, main, hist, prewarm, thread, uploaded>>

CacheImage ==
    /\ unit = "image_cache"
    /\ \E name \in Ids : \E url \in Urls :
           ImageFinish(cache_image(image, name, url),
                       Req("cache_image", 200, <<name, url>>))

GetCachedKey ==
    /\ unit = "image_cache"
    /\ \E name \in Ids :
           ImageFinish(image, [Req("get_cached_key", 200, <<name>>) EXCEPT
                                  !.payload = [kind |-> "key",
                                               value |-> get_cached_key(image, name)]])

SaveCache ==
    /\ unit = "image_cache"
    /\ \E io \in [local : IoOutcomes, s3 : IF image.s3_configured THEN IoOutcomes ELSE {"ok"}] :
           ImageFinish(save_cache(image, io), Req("save_cache", 200, <<io>>))

\* image_cache = SpotifyImageCache() when the process starts: the map in
\* memory is gone, the file and the S3 object are what they are.
Construct ==
    /\ unit = "image_cache"
    /\ \E found \in LocalFileStates :
       \E s3read \in (IF image.s3_configured THEN S3Reads ELSE {"ok"}) :
       \E io \in IoOutcomes :
           LET r == load_cache(image, found, s3read, io) IN
           /\ image' = r.ic
           /\ last' = Req("construct", IF r.ok THEN 200 ELSE 500, <<found, s3read, io>>)
           /\ UNCHANGED <<unit, catalog, main, hist, prewarm, thread, uploaded>>

\* What a call of the catalog client reads of its environment: the token
\* endpoint only when it has credentials and no valid token, the batch
\* endpoint only when it got a token, neither on a memoised tuple or an
\* empty list.
TokenAsked(c, env) == c.credentials /\ ~TokenValid(c.token_cache, env.now)
ReadsEnv(c, asks_batch, env) ==
    /\ ~TokenAsked(c, env) => env.token = "ok" /\ env.expires_in = 3600
    /\ \/ ~asks_batch
       \/ ~c.credentials /\ ~TokenValid(c.token_cache, env.now)
       \/ TokenAsked(c, env) /\ env.token # "ok"
       => env.bad = 0
BatchEnvs(c, kind, ids) ==
    LET asks == ~Has(c.memo, <<kind, ids>>) /\ Len(ids) > 0 IN
    {env \in Envs(c.now, Len(chunks(ids, BatchSize))) :
        /\ ReadsEnv(c, asks, env)
        /\ ~asks => env.token = "ok" /\ env.expires_in = 3600}

\* The catalog client's functions, one call each.
CatalogFinish(r) ==
    /\ Cardinality(DOMAIN r.c.memo) <= MaxMemo
    /\ catalog' = r.c
    /\ last' = r.resp
    /\ UNCHANGED <<unit, main, hist, image, prewarm, thread, uploaded>>

GetAppTokenSync ==
    /\ unit = "catalog"
    /\ \E env \in {e \in Envs(catalog.now, 0) : ReadsEnv(catalog, FALSE, e)} :
           LET t == get_app_token(catalog.token_cache, catalog.credentials, env) IN
           CatalogFinish([c |-> [catalog EXCEPT !.now = env.now, !.token_cache = t.tc],
                          resp |-> [Req("get_app_token", t.status, <<env>>) EXCEPT
                                        !.requests = t.log,
                                        !.payload = [kind |-> "token", token |-> t.token]]])

BatchTracks ==
    /\ unit = "catalog"
    /\ \E ids \in IdLists :
       \E env \in BatchEnvs(catalog, "tracks", ids) :
           CatalogFinish(batch_tracks(catalog, ids, env))

BatchArtists ==
    /\ unit = "catalog"
    /\ \E ids \in IdLists :
       \E env \in BatchEnvs(catalog, "artists", ids) :
           CatalogFinish(batch_artists(catalog, ids, env))

Next ==
    \/ ApiSummary
    \/ ApiBubbles
    \/ ApiHistoricalData
    \/ PrewarmOtherViews
    \/ ApiUploadHistory
    \/ ApiUseDefaultHistory
    \/ RegisterOnChange
    \/ HistoryGetDf
    \/ HistorySetDf
    \/ ClearCache
    \/ HistoryBuildDicts
    \/ CacheImage
    \/ GetCachedKey
    \/ SaveCache
    \/ Construct

Spec == Init /\ [][Next]_vars

\* ------------------------------------------------- the prewarm thread runs
\* threading.Thread(target=_prewarm_other_views, daemon=True).start(): a
\* started closure is run by the scheduler, whatever the response caches
\* hold by then.  The routes are followed while the caches hold up to
\* MaxEntries entries; the closure is not held back by that.
\* Every key the response caches can hold.
AllEntries ==
    Cardinality((0..MaxVersion) \X Filters \X Groups)
        + Cardinality((0..MaxVersion) \X Filters)
        + Cardinality((0..MaxVersion) \X Filters \X Limits)

InitLive ==
    /\ unit = "main"
    /\ catalog = CatalogInit(TRUE)
    /\ main = MainInit
    /\ hist = HistInit
    /\ image = ImageInit(FALSE)
    /\ prewarm = [t \in Tasks |-> 0]
    /\ last = Resp("init", 0)
    /\ thread = [t \in Threads |-> Idle]
    /\ uploaded = None

PrewarmThread ==
    /\ unit = "main"
    /\ \E task \in Tasks, outcome \in LoadInputs(main) :
         LET computes == /\ outcome \notin LoadFailures
                         /\ ~Has(main.resp_cache_bubbles,
                                 bubbles_key(main, task.filter, other_group(task.group)))
         IN \E fetch \in FetchInputs(computes, other_group(task.group)) :
            \E io \in IoInputs(computes, other_group(task.group), fetch) :
              /\ prewarm[task] > 0
              /\ PrewarmFinish(prewarm_other_views(main, image, task, outcome, fetch, io),
                               task, AllEntries)

NextLive ==
    \/ ApiSummary
    \/ ApiBubbles
    \/ ApiHistoricalData
    \/ ApiUploadHistory
    \/ ApiUseDefaultHistory
    \/ PrewarmThread

\* A started closure is pending until the thread has run: the step that
\* takes it off the pending closures is the step of PrewarmThread, which is
\* enabled exactly when a closure is pending (the loaded dataset is never
\* dropped, so the closure loads nothing and the version stays in range).
ThreadRuns ==
    /\ unit = "main"
    /\ \E task \in Tasks :
         /\ prewarm[task] > 0
         /\ prewarm' = [prewarm EXCEPT ![task] = @ - 1]

SpecLive == InitLive /\ [][NextLive]_vars /\ WF_prewarm(ThreadRuns)

\* ----------------------------------------------------- the catalog client
\* The token cache and the batch helpers on their own: SPOTIFY_CLIENT_ID and
\* SPOTIFY_CLIENT_SECRET are set or not when the process starts.
InitCatalog ==
    /\ unit = "catalog"
    /\ \E credentials \in BOOLEAN : catalog = CatalogInit(credentials)
    /\ main = MainInit
    /\ hist = HistInit
    /\ image = ImageInit(FALSE)
    /\ prewarm = [t \in Tasks |-> 0]
    /\ last = Resp("init", 0)
    /\ thread = [t \in Threads |-> Idle]
    /\ uploaded = None

NextCatalog ==
    \/ GetAppTokenSync
    \/ BatchTracks
    \/ BatchArtists

SpecCatalog == InitCatalog /\ [][NextCatalog]_vars

\* ------------------------------------------------ the batch lookup routes
\* /api/tracks-batch and /api/artists-batch over the metadata cache and the
\* token cache; DEMO_MODE and the credentials are set when the process
\* starts, static_data.json holds nothing or a legacy entry.
InitBatch ==
    /\ unit = "batch_routes"
    /\ \E credentials \in BOOLEAN, demo_mode \in BOOLEAN :
           catalog = [CatalogInit(credentials) EXCEPT !.demo_mode = demo_mode]
    /\ main = MainInit
    /\ hist = HistInit
    /\ \E cache \in {EmptyMap, (1 :> Legacy)} :
           image = [ImageInit(FALSE) EXCEPT !.cache = cache, !.local_file = cache]
    /\ prewarm = [t \in Tasks |-> 0]
    /\ last = Resp("init", 0)
    /\ thread = [t \in Threads |-> Idle]
    /\ uploaded = None

\* What a route call reads of its environment: the token endpoint when it
\* fetches without a valid token, the batch endpoint when it got a token,
\* the disk when it fetched.
RouteEnvs(c, ic, kind, ids) ==
    LET missing_ids == SelectSeq(dedupe(ids), LAMBDA i : ~RouteHit(ic, kind, i))
        fetches == Len(missing_ids) > 0 /\ ~c.demo_mode /\ c.credentials
    IN {env \in Envs(c.now, IF fetches THEN Len(chunks(missing_ids, BatchSize)) ELSE 0) :
           /\ env.now = c.now
           /\ env.expires_in = 3600
           /\ ~(fetches /\ TokenAsked(c, env)) => env.token = "ok"
           /\ env.token # "ok" => env.bad = 0}

RouteIo(c, ic, kind, ids, env) ==
    LET missing_ids == SelectSeq(dedupe(ids), LAMBDA i : ~RouteHit(ic, kind, i)) IN
    IF Len(missing_ids) > 0 /\ ~c.demo_mode /\ c.credentials /\ env.token = "ok" /\ env.bad = 0
    THEN [local : IoOutcomes, s3 : {"ok"}]
    ELSE {[local |-> "ok", s3 |-> "ok"]}

RouteFinish(r) ==
    /\ catalog' = r.c
    /\ image' = r.ic
    /\ last' = r.resp
    /\ UNCHANGED <<unit, main, hist, prewarm, thread, uploaded>>

TracksBatch ==
    /\ unit = "batch_routes"
    /\ \E ids \in RouteLists :
       \E env \in RouteEnvs(catalog, image, "tracks", ids) :
       \E io \in RouteIo(catalog, image, "tracks", ids, env) :
           RouteFinish(tracks_batch(catalog, image, ids, env, io))

ArtistsBatch ==
    /\ unit = "batch_routes"
    /\ \E ids \in RouteLists :
       \E env \in RouteEnvs(catalog, image, "artists", ids) :
       \E io \in RouteIo(catalog, image, "artists", ids, env) :
           RouteFinish(artists_batch(catalog, image, ids, env, io))

NextBatch ==
    \/ TracksBatch
    \/ ArtistsBatch

SpecBatch == InitBatch /\ [][NextBatch]_vars

\* ------------------------------------------------- concurrent requests
\* Sync routes run on worker threads, the async upload route on the event
\* loop; load_df() reads a file or S3 and other calls run while it does.  A
\* call that has to load is split where load_df() is called: what it read
\* before (the None check, the key) is kept in thread[t].
InitConc ==
    /\ unit \in {"main", "history"}
    /\ catalog = CatalogInit(TRUE)
    /\ main = MainInit
    /\ hist = HistInit
    /\ image = ImageInit(FALSE)
    /\ prewarm = [t \in Tasks |-> 0]
    /\ last = Resp("init", 0)
    /\ thread = [t \in Threads |-> Idle]
    /\ uploaded = None

ConcFinish(r, th, up) ==
    /\ r.m.dataset_version <= MaxVersion
    /\ main' = r.m
    /\ image' = r.ic
    /\ last' = r.resp
    /\ thread' = th
    /\ uploaded' = up
    /\ UNCHANGED <<unit, catalog, hist, prewarm>>

Wait(t, call, up) ==
    /\ thread' = [thread EXCEPT ![t] = call]
    /\ uploaded' = up
    /\ UNCHANGED <<unit, catalog, main, hist, image, prewarm, last>>

SummaryCall(t) ==
    /\ unit = "main"
    /\ thread[t] = Idle
    /\ \E f \in Filters :
           LET key == summary_key(main, f) IN
           IF Has(main.resp_cache_summary, key) \/ main.df_cache # None
           THEN ConcFinish(api_summary(main, image, f, None), thread, uploaded)
           ELSE Wait(t, [at |-> "get_df", f |-> f, key |-> key], uploaded)

SummaryLoaded(t) ==
    /\ unit = "main"
    /\ thread[t].at = "get_df"
    /\ \E outcome \in LoadOutcomes :
           ConcFinish(api_summary_miss(image, thread[t].f, thread[t].key,
                                       get_df_load(main, outcome)),
                      [thread EXCEPT ![t] = Idle], uploaded)

UploadCall ==
    /\ unit = "main"
    /\ \E file \in UploadFiles \cup BadUploads :
           LET r == api_upload_history(main, image, file)
           IN ConcFinish(r, thread, IF r.resp.status = 200 THEN file ELSE None)

UseDefaultCall(t) ==
    /\ unit = "main"
    /\ thread[t] = Idle
    /\ IF main.data_source = "default" /\ main.df_cache # None
       THEN ConcFinish(api_use_default_history(main, image, None), thread, None)
       ELSE Wait(t, [at |-> "use_default"], None)

UseDefaultLoaded(t) ==
    /\ unit = "main"
    /\ thread[t].at = "use_default"
    /\ \E outcome \in LoadOutcomes :
           ConcFinish(api_use_default_history_load(main, image, outcome),
                      [thread EXCEPT ![t] = Idle], uploaded)

ConcHistFinish(r, th, up) ==
    /\ r.h.dataset_version <= MaxVersion
    /\ hist' = r.h
    /\ last' = r.resp
    /\ thread' = th
    /\ uploaded' = up
    /\ UNCHANGED <<unit, catalog, main, image, prewarm>>

GetDfCall(t) ==
    /\ unit = "history"
    /\ thread[t] = Idle
    /\ IF hist.df_cache # None
       THEN ConcHistFinish(history_get_df(hist, None), thread, uploaded)
       ELSE Wait(t, [at |-> "history_get_df"], uploaded)

GetDfLoaded(t) ==
    /\ unit = "history"
    /\ thread[t].at = "history_get_df"
    /\ \E outcome \in LoadOutcomes :
           ConcHistFinish(history_get_df_load(hist, outcome),
                          [thread EXCEPT ![t] = Idle], uploaded)

SetDfCall ==
    /\ unit = "history"
    /\ \/ \E df \in UploadFiles :
              ConcHistFinish(history_set_df(hist, df, "uploaded"), thread, df)
       \/ \E df \in DefaultSources :
              ConcHistFinish(history_set_df(hist, df, "default"), thread, None)

NextConc ==
    \/ \E t \in Threads : SummaryCall(t)
    \/ \E t \in Threads : SummaryLoaded(t)
    \/ UploadCall
    \/ \E t \in Threads : UseDefaultCall(t)
    \/ \E t \in Threads : UseDefaultLoaded(t)
    \/ \E t \in Threads : GetDfCall(t)
    \/ \E t \in Threads : GetDfLoaded(t)
    \/ SetDfCall

SpecConc == InitConc /\ [][NextConc]_vars

\* ------------------------------------------- the store, statement by statement
\* The sync routes run on worker threads and the async upload route on the
\* event loop, with no lock around the globals of main.py; a thread can be
\* switched between any two statements, and "_dataset_version += 1" is a
\* read and a write (a data race: both orders of the two threads' reads
\* and writes can come out).  Each thread makes one call and keeps, in
\* thread[t], where it is and its locals; a finished call leaves what it
\* did: whether it replaced the dataset, the version it wrote and the
\* snapshot it installed.
\* The catalog is down in these runs (hydration adds no image and caches
\* nothing), load_df() finds the default dataset, and the closure a bubbles
\* request starts is not followed.
RaceThreads == Threads \cup {"loop"}
CatalogDown == [tracks |-> "http", artists |-> "http"]
DiskOk == [local |-> "ok", s3 |-> "ok"]

Done(op, replaced, version, snap) ==
    [at |-> "done", op |-> op, replaced |-> replaced, version |-> version,
     snap |-> snap]

InitRace ==
    /\ unit = "race"
    /\ catalog = CatalogInit(TRUE)
    /\ main = MainInit
    /\ hist = HistInit
    /\ image = ImageInit(FALSE)
    /\ prewarm = [t \in Tasks |-> 0]
    /\ last = Resp("init", 0)
    /\ thread = [t \in RaceThreads |-> Idle]
    /\ uploaded = None

\* A step of thread t that ends no call.
RaceStep(t, m, local) ==
    /\ main' = m
    /\ thread' = [thread EXCEPT ![t] = local]
    /\ UNCHANGED <<unit, catalog, hist, image, prewarm, last, uploaded>>

\* The step of thread t that ends its call with the response resp.
RaceEnd(t, m, done, resp) ==
    /\ main' = m
    /\ thread' = [thread EXCEPT ![t] = done]
    /\ last' = resp
    /\ UNCHANGED <<unit, catalog, hist, image, prewarm, uploaded>>

\* api_bubbles: "key = (_dataset_version, ...)" and the cache lookup.
BubblesKey(t) ==
    /\ unit = "race"
    /\ t \in Threads
    /\ thread[t] = Idle
    /\ \E f \in GoodFilters, g \in Groups :
           LET key == bubbles_key(main, f, g) IN
           IF Has(main.resp_cache_bubbles, key)
           THEN RaceEnd(t, main, Done("bubbles", FALSE, 0, None),
                        [Req("bubbles", 200, <<f, g>>) EXCEPT !.hit = TRUE,
                             !.payload = main.resp_cache_bubbles[key]])
           ELSE RaceStep(t, main, [at |-> "get_df", f |-> f, g |-> g, key |-> key])

\* get_df(): "if _df_cache is None", and "return _df_cache" when it is not.
GetDfCheck(t) ==
    /\ unit = "race"
    /\ thread[t].at = "get_df"
    /\ IF main.df_cache # None
       THEN RaceStep(t, main, [at |-> "aggregates", f |-> thread[t].f, g |-> thread[t].g,
                               key |-> thread[t].key, df |-> main.df_cache,
                               wrote |-> 0, set |-> None])
       ELSE RaceStep(t, main, [thread[t] EXCEPT !.at = "load_df"])

\* "_df_cache = load_df()" of get_df().
GetDfAssign(t) ==
    /\ unit = "race"
    /\ thread[t].at = "load_df"
    /\ \E df \in DefaultSources :
           RaceStep(t, [main EXCEPT !.df_cache = load_df(df).df],
                    [at |-> "bump_read", f |-> thread[t].f, g |-> thread[t].g,
                     key |-> thread[t].key, set |-> load_df(df).df])

\* _bump_dataset_version(): the read of "_dataset_version += 1", its write,
\* and the reset and the three clear() calls.
BumpRead(t) ==
    /\ unit = "race"
    /\ thread[t].at = "bump_read"
    /\ RaceStep(t, main, [at |-> "bump_write", read |-> main.dataset_version,
                          call |-> thread[t]])

BumpWrite(t) ==
    /\ unit = "race"
    /\ thread[t].at = "bump_write"
    /\ RaceStep(t, [main EXCEPT !.dataset_version = thread[t].read + 1],
                [thread[t] EXCEPT !.at = "bump_clear"])

BumpClear(t) ==
    /\ unit = "race"
    /\ thread[t].at = "bump_clear"
    /\ LET m == clear_response_caches([main EXCEPT !.build_dicts_cache = "reset"])
           call == thread[t].call
           wrote == thread[t].read + 1
       IN CASE call.at = "bump_read" /\ "f" \in DOMAIN call ->
                   \* get_df(): the tag, then "return _df_cache"
                   RaceStep(t, m, [at |-> "get_df_return", f |-> call.f, g |-> call.g,
                                   key |-> call.key, wrote |-> wrote,
                                   set |-> call.set])
            [] call.at = "bump_read" /\ "op" \in DOMAIN call ->
                   RaceEnd(t, m, Done(call.op, TRUE, wrote, call.set),
                           [Resp(call.op, 200) EXCEPT !.source = main.data_source])

GetDfReturn(t) ==
    /\ unit = "race"
    /\ thread[t].at = "get_df_return"
    /\ RaceStep(t, IF main.data_source = "unknown"
                   THEN [main EXCEPT !.data_source = "default"] ELSE main,
                [at |-> "aggregates", f |-> thread[t].f, g |-> thread[t].g,
                 key |-> thread[t].key, df |-> main.df_cache,
                 wrote |-> thread[t].wrote, set |-> thread[t].set])

\* "out = aggregates(df, ...)" on the frame get_df() returned: build_dicts
\* reads _dataset_version now.
BubblesAggregates(t) ==
    /\ unit = "race"
    /\ thread[t].at = "aggregates"
    /\ LET a == aggregates(main, image, thread[t].df, thread[t].g, thread[t].f,
                           CatalogDown, DiskOk)
       IN RaceStep(t, a.m, [at |-> "store", f |-> thread[t].f, g |-> thread[t].g,
                            key |-> thread[t].key, out |-> a.out,
                            wrote |-> thread[t].wrote, set |-> thread[t].set])

\* "_resp_cache_bubbles[key] = out" and the return.
BubblesStore(t) ==
    /\ unit = "race"
    /\ thread[t].at = "store"
    /\ RaceEnd(t, [main EXCEPT !.resp_cache_bubbles = Put(@, thread[t].key, thread[t].out)],
               Done("bubbles", thread[t].wrote # 0, thread[t].wrote, thread[t].set),
               [Req("bubbles", 200, <<thread[t].f, thread[t].g>>) EXCEPT
                    !.payload = thread[t].out])

\* api_upload_history on the event loop, from "_df_cache = df" on: the two
\* assignments, then the bump.
UploadAssign(t) ==
    /\ unit = "race"
    /\ t = "loop"
    /\ thread[t] = Idle
    /\ \E file \in UploadFiles :
           RaceStep(t, [main EXCEPT !.df_cache = prepare_history_dataframe(file).df,
                                    !.data_source = "uploaded"],
                    [at |-> "bump_read", op |-> "upload",
                     set |-> prepare_history_dataframe(file).df])

\* api_use_default_history: the idempotence test, then the load and the two
\* assignments, then the bump.
UseDefaultCheck(t) ==
    /\ unit = "race"
    /\ t \in Threads
    /\ thread[t] = Idle
    /\ IF main.data_source = "default" /\ main.df_cache # None
       THEN RaceEnd(t, main, Done("use_default", FALSE, 0, None),
                    [Resp("use_default", 200) EXCEPT !.source = "default",
                         !.idempotent = TRUE])
       ELSE RaceStep(t, main, [at |-> "use_default_load"])

UseDefaultAssign(t) ==
    /\ unit = "race"
    /\ thread[t].at = "use_default_load"
    /\ \E df \in DefaultSources :
           RaceStep(t, [main EXCEPT !.df_cache = load_df(df).df,
                                    !.data_source = "default"],
                    [at |-> "bump_read", op |-> "use_default",
                     set |-> load_df(df).df])

NextRace ==
    \/ \E t \in RaceThreads : BubblesKey(t)
    \/ \E t \in RaceThreads : GetDfCheck(t)
    \/ \E t \in RaceThreads : GetDfAssign(t)
    \/ \E t \in RaceThreads : BumpRead(t)
    \/ \E t \in RaceThreads : BumpWrite(t)
    \/ \E t \in RaceThreads : BumpClear(t)
    \/ \E t \in RaceThreads : GetDfReturn(t)
    \/ \E t \in RaceThreads : BubblesAggregates(t)
    \/ \E t \in RaceThreads : BubblesStore(t)
    \/ \E t \in RaceThreads : UploadAssign(t)
    \/ \E t \in RaceThreads : UseDefaultCheck(t)
    \/ \E t \in RaceThreads : UseDefaultAssign(t)

SpecRace == InitRace /\ [][NextRace]_vars

\* ---------------------------------------- get_app_token_sync on two threads
\* batch_tracks and batch_artists run on the worker threads of the sync
\* routes and on prewarm threads; _token_cache has no lock.  A call is the
\* test of the cached token, and, when it fails, the POST to the token
\* endpoint and the two assignments once the answer is there; other threads
\* run while the POST waits.
InitToken ==
    /\ unit = "token"
    /\ \E credentials \in BOOLEAN : catalog = CatalogInit(credentials)
    /\ main = MainInit
    /\ hist = HistInit
    /\ image = ImageInit(FALSE)
    /\ prewarm = [t \in Tasks |-> 0]
    /\ last = Resp("init", 0)
    /\ thread = [t \in Threads |-> Idle]
    /\ uploaded = None

TokenStep(t, c, local, resp) ==
    /\ catalog' = c
    /\ thread' = [thread EXCEPT ![t] = local]
    /\ last' = resp
    /\ UNCHANGED <<unit, main, hist, image, prewarm, uploaded>>

\* "now = time.time()", the test of the cached token and the test of the
\* credentials; requests.post(...) is sent when both fail to return.
TokenCheck(t) ==
    /\ unit = "token"
    /\ thread[t] = Idle
    /\ \E now \in {x \in Times : x >= catalog.now} :
         LET c == [catalog EXCEPT !.now = now] IN
         IF TokenValid(c.token_cache, now)
         THEN TokenStep(t, c, Idle,
                        [Req("get_app_token", 200, <<t>>) EXCEPT !.hit = TRUE,
                             !.payload = [kind |-> "token",
                                          token |-> c.token_cache.access_token]])
         ELSE IF ~c.credentials
         THEN TokenStep(t, c, Idle, Req("get_app_token", 503, <<t>>))
         ELSE TokenStep(t, c, [at |-> "post", now |-> now],
                        [Req("get_app_token", 0, <<t>>) EXCEPT
                             !.requests = <<[to |-> "token", ids |-> <<>>]>>])

\* The answer of the token endpoint and what follows it.
TokenAnswer(t) ==
    /\ unit = "token"
    /\ thread[t].at = "post"
    /\ \E answer \in HttpOutcomes, expires_in \in ExpiresIn :
         /\ answer # "ok" => expires_in = 3600
         /\ CASE answer = "network" ->
                     TokenStep(t, catalog, Idle, Req("get_app_token", 500, <<t>>))
              [] answer = "status" ->
                     TokenStep(t, catalog, Idle, Req("get_app_token", 502, <<t>>))
              [] answer = "ok" ->
                     TokenStep(t, [catalog EXCEPT !.token_cache =
                                      [access_token |-> Token(thread[t].now),
                                       expires_at |-> thread[t].now + expires_in]],
                               Idle,
                               [Req("get_app_token", 200, <<t>>) EXCEPT
                                    !.payload = [kind |-> "token",
                                                 token |-> Token(thread[t].now)]])

NextToken ==
    \/ \E t \in Threads : TokenCheck(t)
    \/ \E t \in Threads : TokenAnswer(t)

SpecToken == InitToken /\ [][NextToken]_vars

\* ------------------- hydration_aggregation.py: _hydrate_bubble_images
\* The hydration as a function of the items, the two lookup dicts, the
\* metadata cache and what the catalog answers.  An object of the cache or
\* of the catalog is a record: its id, whether it has an "album", the urls
\* of the album's images, its "artists" and the urls of its own "images".
\* A key f"{a}::{b}" of the dicts is the pair <<a, b>>.
MaxHydItems == 2
Labels == {"A", "B"}
RepIds == {"t1", "t2"}
Lower(name) == IF name = "A" THEN "a" ELSE IF name = "B" THEN "b" ELSE name

MetaObj(id, has_album, album_images, artists, images) ==
    [id |-> id, has_album |-> has_album, album_images |-> album_images,
     artists |-> artists, images |-> images]
\* What the catalog holds: track t1 with album art, by artist a1 ("A");
\* track t2 without album art, by a2 ("X") and a1 (listed as "b"); artist
\* a1 with a picture, artist a2 without.  An id the catalog does not know
\* comes back as null.
NullObj == MetaObj(None, FALSE, <<>>, <<>>, <<>>)
CatalogTrack(t) ==
    IF t = "t1" THEN MetaObj("t1", TRUE, <<"art_t1">>, <<[id |-> "a1", name |-> "A"]>>, <<>>)
    ELSE MetaObj("t2", TRUE, <<>>, <<[id |-> "a2", name |-> "X"], [id |-> "a1", name |-> "b"]>>, <<>>)
CatalogArtist(a) ==
    IF a = "a1" THEN MetaObj("a1", FALSE, <<>>, <<>>, <<"pic_a1">>)
    ELSE MetaObj("a2", FALSE, <<>>, <<>>, <<>>)
\* An entry that is a dict but lacks what hydration needs.
Incomplete(id) == MetaObj(id, FALSE, <<>>, <<>>, <<>>)

\* The items aggregates() hands over: id and label are the group's name,
\* "artist" is set in the album view, "ids" are the group's track ids,
\* "top_tracks" the names of its top tracks.  An item may carry an image
\* already.  The groups of a frame are distinct: artists in the artist
\* view, (album, artist) pairs in the album view.
HydItems(g) ==
    {[id |-> l, artist |-> a, ids |-> ids, top_tracks |-> top, image_url |-> url] :
        l \in Labels, a \in (IF g = "album" THEN Labels ELSE {None}),
        ids \in {<<>>, <<"t1">>},
        top \in (IF g = "artist" THEN {<<>>, <<"trk">>} ELSE {<<>>}),
        url \in {None, "own"}}
HydLists(g) ==
    {s \in UNION {[1..n -> HydItems(g)] : n \in 0..MaxHydItems} :
        \A i, j \in DOMAIN s :
            (s[i].id = s[j].id /\ s[i].artist = s[j].artist) => i = j}

\* build_dicts' artist_album_to_id and track_artist_to_album: empty, or
\* knowing album "A" of artist "A" and album "alb" of artist "B" (both led
\* by track t2) and the albums of track "trk" of either artist.
HydDicts ==
    {[aa_id |-> EmptyMap, ta_a |-> EmptyMap],
     [aa_id |-> (<<"A", "A">> :> "t2") @@ (<<"B", "alb">> :> "t2"),
      ta_a |-> (<<"trk", "B">> :> "alb") @@ (<<"trk", "A">> :> "A")]}

\* The cache before the call: per track nothing, the object, or a dict
\* without "album"; artist a1 cached or not.
HydCaches ==
    {[i \in S |-> IF i \in bad THEN Incomplete(i)
                  ELSE IF i \in RepIds THEN CatalogTrack(i) ELSE CatalogArtist(i)] :
        S \in SUBSET {"t1", "t2", "a1"}, bad \in SUBSET {"t1"}}

\* What batch_tracks_fn / batch_artists_fn do: return the objects, return
\* nulls (ids the catalog does not know), or raise HTTPException.
HydAnswers == {"found", "unknown", "http"}

Get(d, k) == IF k \in DOMAIN d THEN d[k] ELSE None

\* The first album of the item's top tracks that leads to an id.
RECURSIVE top_track_rep(_, _, _, _)
top_track_rep(item, tops, aa_id, ta_a) ==
    IF tops = <<>> THEN None
    ELSE LET album_name == Get(ta_a, <<Head(tops), item.id>>)
             rep == IF album_name = None THEN None
                    ELSE Get(aa_id, <<item.id, album_name>>)
         IN IF rep # None THEN rep ELSE top_track_rep(item, Tail(tops), aa_id, ta_a)

\* Lines 99..121: the representative track of one item, or None.
representative(item, g, d) ==
    IF item.ids # <<>> THEN Head(item.ids)
    ELSE IF g = "album"
    THEN (IF item.artist # None THEN Get(d.aa_id, <<item.artist, item.id>>) ELSE None)
    ELSE top_track_rep(item, item.top_tracks, d.aa_id, d.ta_a)

\* item_by_id and representative_tracks: dicts keyed by item["id"], each
\* key holding what the last item with that id put there.
LastIndex(items, S) == CHOOSE i \in S : \A j \in S : j <= i
item_by_id(items) ==
    [id \in {items[i].id : i \in DOMAIN items} |->
        LastIndex(items, {i \in DOMAIN items : items[i].id = id})]
representative_tracks(items, g, d) ==
    LET has == {i \in DOMAIN items : representative(items[i], g, d) # None} IN
    [id \in {items[i].id : i \in has} |->
        representative(items[LastIndex(items, {i \in has : items[i].id = id})], g, d)]

\* "isinstance(cached, dict) and cached.get(...)": the entry is there and
\* has an album (tracks) or a non-empty list of images (artists).
Complete(kind, cache, i) ==
    /\ i \in DOMAIN cache
    /\ IF kind = "tracks" THEN cache[i].has_album ELSE cache[i].images # <<>>
CatalogObj(kind, i) == IF kind = "tracks" THEN CatalogTrack(i) ELSE CatalogArtist(i)

\* What fetch_block leaves when "if fetched_any:" is dropped.
fetch_block_saving_always(kind, wanted, cache, answer) ==
    LET missing == {i \in wanted : ~Complete(kind, cache, i)}
        payloads == IF missing = {} \/ answer = "http" THEN {}
                    ELSE IF answer = "unknown" THEN {NullObj}
                    ELSE {CatalogObj(kind, i) : i \in missing}
        fetched == {o.id : o \in {p \in payloads : p.id # None}}
        cache1 == [i \in DOMAIN cache \cup fetched |->
                      IF i \in fetched THEN CatalogObj(kind, i) ELSE cache[i]]
    IN [by_id |-> [i \in (wanted \ missing) \cup fetched |-> cache1[i]],
        cache |-> cache1,
        log |-> IF missing = {} THEN <<>>
                ELSE <<[ev |-> kind, ids |-> missing, cache |-> cache],
                       [ev |-> "save_cache", ids |-> {}, cache |-> cache1]>>,
        hits |-> Cardinality(wanted \ missing),
        misses |-> Cardinality(missing),
        fetched |-> IF answer = "found" THEN Cardinality(missing) ELSE 0]

\* What fetch_block leaves when every wanted id is asked, cached or not.
fetch_block_asking_all(kind, wanted, cache, answer) ==
    LET missing == {i \in wanted : ~Complete(kind, cache, i)}
        payloads == IF wanted = {} \/ answer = "http" THEN {}
                    ELSE IF answer = "unknown" THEN {NullObj}
                    ELSE {CatalogObj(kind, i) : i \in wanted}
        fetched == {o.id : o \in {p \in payloads : p.id # None}}
        cache1 == [i \in DOMAIN cache \cup fetched |->
                      IF i \in fetched THEN CatalogObj(kind, i) ELSE cache[i]]
    IN [by_id |-> [i \in (wanted \ missing) \cup fetched |-> cache1[i]],
        cache |-> cache1,
        log |-> (IF wanted = {} THEN <<>>
                 ELSE <<[ev |-> kind, ids |-> wanted, cache |-> cache]>>)
                \o (IF fetched = {} THEN <<>>
                    ELSE <<[ev |-> "save_cache", ids |-> {}, cache |-> cache1]>>),
        hits |-> Cardinality(wanted \ missing),
        misses |-> Cardinality(missing),
        fetched |-> IF answer = "found" THEN Cardinality(wanted) ELSE 0]

\* One fetch block (lines 129..157 for tracks, 191..220 for artists): the
\* wanted ids split into cache hits and misses, the misses asked in one
\* call (an HTTPException giving no payloads), what came with an id put in
\* the cache, the cache saved if anything was put.
\* [by_id, cache, log, hits, misses, fetched]: log is the calls made, each
\* with the cache as it was then.
fetch_block(kind, wanted, cache, answer) ==
    LET missing == {i \in wanted : ~Complete(kind, cache, i)}
        payloads == IF missing = {} \/ answer = "http" THEN {}
                    ELSE IF answer = "unknown" THEN {NullObj}
                    ELSE {CatalogObj(kind, i) : i \in missing}
        fetched == {o.id : o \in {p \in payloads : p.id # None}}
        cache1 == [i \in DOMAIN cache \cup fetched |->
                      IF i \in fetched THEN CatalogObj(kind, i) ELSE cache[i]]
    IN [by_id |-> [i \in (wanted \ missing) \cup fetched |-> cache1[i]],
        cache |-> cache1,
        log |-> (IF missing = {} THEN <<>>
                 ELSE <<[ev |-> kind, ids |-> missing, cache |-> cache]>>)
                \o (IF fetched = {} THEN <<>>
                    ELSE <<[ev |-> "save_cache", ids |-> {}, cache |-> cache1]>>),
        hits |-> Cardinality(wanted \ missing),
        misses |-> Cardinality(missing),
        fetched |-> IF answer = "found" THEN Cardinality(missing) ELSE 0]

NoBlock(cache) ==
    [by_id |-> EmptyMap, cache |-> cache, log |-> <<>>, hits |-> 0, misses |-> 0,
     fetched |-> 0]

\* What track_image gives when the album art replaces a carried image.
track_image_overwriting(image_url, track) ==
    IF track.album_images # <<>> THEN Head(track.album_images) ELSE image_url

\* Lines 170..173: the item's image_url after its track was looked at.
track_image(image_url, track) ==
    IF track.album_images # <<>> /\ image_url = None
    THEN Head(track.album_images) ELSE image_url

\* Lines 175..189: the artist of the track whose name is the item's label
\* whatever the case, or else the first one; None without artists.
chosen_artist(label, track) ==
    LET arts == track.artists
        match == {k \in DOMAIN arts : Lower(arts[k].name) = Lower(label)}
    IN IF match # {} THEN arts[CHOOSE k \in match : \A j \in match : k <= j].id
       ELSE IF arts # <<>> THEN arts[1].id ELSE None

\* _hydrate_bubble_images(items, group_by, ...): [items, cache, log, stats];
\* each item comes back with its image_url and its
\* representative_track_id (None: not set).
hydrate(items, g, d, cache, answer) ==
    LET reps == representative_tracks(items, g, d)
        rep_ids == {reps[id] : id \in DOMAIN reps}
        by_id == item_by_id(items)
        T == IF rep_ids = {} THEN NoBlock(cache)
             ELSE fetch_block("tracks", rep_ids, cache, answer.tracks)
        reached(i) == items[i].id \in DOMAIN reps /\ by_id[items[i].id] = i
        rep(i) == IF reached(i) THEN reps[items[i].id] ELSE None
        track(i) == IF rep(i) \in DOMAIN T.by_id THEN T.by_id[rep(i)] ELSE NullObj
        artist_id(i) == IF g = "artist" THEN chosen_artist(items[i].id, track(i)) ELSE None
        artist_ids == {artist_id(i) : i \in DOMAIN items} \ {None}
        A == IF artist_ids = {} THEN NoBlock(T.cache)
             ELSE fetch_block("artists", artist_ids, T.cache, answer.artists)
        artist(i) == IF artist_id(i) \in DOMAIN A.by_id THEN A.by_id[artist_id(i)]
                     ELSE NullObj
    IN [items |-> [i \in DOMAIN items |->
                      [id |-> items[i].id, artist |-> items[i].artist,
                       representative_track_id |-> rep(i),
                       image_url |-> IF artist(i).images # <<>>
                                     THEN Head(artist(i).images)
                                     ELSE track_image(items[i].image_url, track(i))]],
        cache |-> A.cache,
        log |-> T.log \o A.log,
        stats |-> [tracks_cache_hits |-> T.hits, tracks_cache_misses |-> T.misses,
                   tracks_fetched |-> T.fetched, artists_cache_hits |-> A.hits,
                   artists_cache_misses |-> A.misses, artists_fetched |-> A.fetched]]

\* ----------------------------------------------- the hydration, applied
InitHydrate ==
    /\ unit = "hydration"
    /\ catalog = CatalogInit(TRUE)
    /\ main = MainInit
    /\ hist = HistInit
    /\ image = ImageInit(FALSE)
    /\ prewarm = [t \in Tasks |-> 0]
    /\ \E g \in Groups, d \in HydDicts, cache \in HydCaches :
       \E items \in HydLists(g) :
           last = Req("items", 0, <<items, g, d, cache>>)
    /\ thread = [t \in Threads |-> Idle]
    /\ uploaded = None

HydrateBubbleImages ==
    /\ unit = "hydration"
    /\ last.op = "items"
    /\ \E answer \in [tracks : HydAnswers, artists : HydAnswers] :
           /\ last.req[2] = "album" => answer.artists = "found"
           /\ last' = [Req("hydrate", 0, last.req \o <<answer>>) EXCEPT
                          !.payload = hydrate(last.req[1], last.req[2], last.req[3],
                                              last.req[4], answer)]
           /\ UNCHANGED <<unit, catalog, main, hist, image, prewarm, thread, uploaded>>

NextHydrate == HydrateBubbleImages

SpecHydrate == InitHydrate /\ [][NextHydrate]_vars

\* ------------------------------- save_cache and cache_image on two threads
\* Hydration runs on worker threads and on prewarm threads, all sharing
\* image_cache with no lock.  json.dump(self.cache, f, indent=2) walks the
\* live dict with the pure-Python encoder, one key per step with writes to
\* the file in between, so cache_image can run between two keys: the walk
\* raises RuntimeError ("dictionary changed size during iteration") at its
\* next step when a key was added, and goes on when a value was replaced.
\* The walk follows insertion order, which the map here does not record: the
\* next key is any key not yet written.  One save_cache runs at a time; it
\* keeps what it persisted (the file it closed, the object it put) and, to
\* compare with, every value the map had while it ran.
SaveDone(raised, files, seen) ==
    [at |-> "done", raised |-> raised, files |-> files, seen |-> seen]

InitFlush ==
    /\ unit = "flush"
    /\ catalog = CatalogInit(TRUE)
    /\ main = MainInit
    /\ hist = HistInit
    /\ \E s3_configured \in BOOLEAN : image = ImageInit(s3_configured)
    /\ prewarm = [t \in Tasks |-> 0]
    /\ last = Resp("init", 0)
    /\ thread = [t \in Threads |-> Idle]
    /\ uploaded = None

FlushStep(t, ic, local, resp) ==
    /\ image' = ic
    /\ thread' = [[u \in Threads |->
                      IF "seen" \in DOMAIN thread[u] /\ thread[u].at # "done"
                      THEN [thread[u] EXCEPT !.seen = @ \cup {ic.cache}]
                      ELSE thread[u]] EXCEPT ![t] = local]
    /\ last' = resp
    /\ UNCHANGED <<unit, catalog, main, hist, prewarm, uploaded>>

\* cache_image(name, url) on thread t.
PutOnThread(t) ==
    /\ unit = "flush"
    /\ thread[t] = Idle
    /\ \E name \in Ids, url \in Urls :
           FlushStep(t, cache_image(image, name, url), Idle,
                     Req("cache_image", 200, <<name, url>>))

\* save_cache(): open(self.cache_file, 'w') truncates the file, or raises
\* the IOError that is swallowed.
SaveOpen(t) ==
    /\ unit = "flush"
    /\ thread[t] = Idle
    /\ \A u \in Threads : thread[u].at \in {"idle", "done"}
    /\ \E io \in IoOutcomes :
           IF io = "ok"
           THEN FlushStep(t, [image EXCEPT !.local_file = EmptyMap,
                                           !.local_state = "corrupt"],
                          [at |-> "dump", size |-> Cardinality(DOMAIN image.cache),
                           todo |-> DOMAIN image.cache, written |-> EmptyMap,
                           seen |-> {image.cache}],
                          Req("save_cache", 0, <<"open">>))
           ELSE FlushStep(t, image,
                          [at |-> "s3", files |-> {}, seen |-> {image.cache}],
                          Req("save_cache", 0, <<"ioerror">>))

\* One step of the walk of json.dump: the size check, then the next key and
\* its value as they are now.
SaveDumpItem(t) ==
    /\ unit = "flush"
    /\ thread[t].at = "dump"
    /\ thread[t].todo # {}
    /\ IF Cardinality(DOMAIN image.cache) # thread[t].size
       THEN FlushStep(t, image, SaveDone(TRUE, {}, thread[t].seen),
                      Req("save_cache", 500, <<"RuntimeError">>))
       ELSE \E k \in thread[t].todo :
                FlushStep(t, image,
                          [thread[t] EXCEPT !.todo = @ \ {k},
                                            !.written = Put(@, k, image.cache[k])],
                          Req("save_cache", 0, <<k>>))

\* The step that ends the walk (the size is checked once more) and closes
\* the file.
SaveDumpEnd(t) ==
    /\ unit = "flush"
    /\ thread[t].at = "dump"
    /\ thread[t].todo = {}
    /\ IF Cardinality(DOMAIN image.cache) # thread[t].size
       THEN FlushStep(t, image, SaveDone(TRUE, {}, thread[t].seen),
                      Req("save_cache", 500, <<"RuntimeError">>))
       ELSE FlushStep(t, [image EXCEPT !.local_file = thread[t].written,
                                       !.local_state = "written"],
                      [at |-> "s3", files |-> {thread[t].written},
                       seen |-> thread[t].seen],
                      Req("save_cache", 0, <<"close">>))

\* The S3 half: json.dumps(self.cache) in one call, put_object, every
\* exception swallowed; then save_cache returns.
SavePutObject(t) ==
    /\ unit = "flush"
    /\ thread[t].at = "s3"
    /\ \E io \in (IF image.s3_configured THEN IoOutcomes ELSE {"ok"}) :
           FlushStep(t, IF image.s3_configured /\ io = "ok"
                        THEN [image EXCEPT !.s3_object = image.cache] ELSE image,
                     SaveDone(FALSE,
                              IF image.s3_configured /\ io = "ok"
                              THEN thread[t].files \cup {image.cache}
                              ELSE thread[t].files,
                              thread[t].seen),
                     Req("save_cache", 200, <<io>>))

NextFlush ==
    \/ \E t \in Threads : PutOnThread(t)
    \/ \E t \in Threads : SaveOpen(t)
    \/ \E t \in Threads : SaveDumpItem(t)
    \/ \E t \in Threads : SaveDumpEnd(t)
    \/ \E t \in Threads : SavePutObject(t)

SpecFlush == InitFlush /\ [][NextFlush]_vars

\* --------------------------------- hydration_aggregation.py: the functions
\* aggregates(), historical_data() and prepare_history_dataframe() as
\* functions of the frame they are given.  A frame is a sequence of rows;
\* names are numbers, compared as pandas compares the strings; each album
\* of a frame is one track.
MaxRows == 2
HourMs == 3600000
MaxItems == 160
FallbackItems == 120
MaxLimit == 500

Names == 1..2
MsValues == {-1, 0, 1, HourMs, HourMs + 1}
PlayRows ==
    {[artist |-> a, album |-> b, track |-> b, ms |-> m] :
        a \in Names, b \in Names, m \in MsValues}
SmallFrames == UNION {[1..n -> PlayRows] : n \in 0..MaxRows}

\* n rows, one artist and one album each, the first k of them over one
\* hour, the last one never played; the names run against the play time.
RankedFrame(n, k) ==
    [i \in 1..n |-> [artist |-> n + 1 - i, album |-> n + 1 - i,
                     track |-> n + 1 - i,
                     ms |-> IF i <= k THEN HourMs + 1 + (n - i) ELSE n - i]]
BigSizes == {10, MaxItems + 1}
OverCounts == {0, 3, FallbackItems + 1, MaxItems, MaxItems + 1}
BigFrames == {RankedFrame(n, k) : n \in BigSizes, k \in {c \in OverCounts : c <= 10}}
                 \cup {RankedFrame(MaxItems + 1, k) : k \in OverCounts}
                 \cup {RankedFrame(MaxLimit + 1, 0)}
Frames == SmallFrames \cup BigFrames

MinOf(a, b) == IF a <= b THEN a ELSE b
MaxOf(a, b) == IF a >= b THEN a ELSE b

\* df.loc[I]["ms_played"].sum()
RECURSIVE SumOver(_, _)
SumOver(df, I) ==
    IF I = {} THEN 0
    ELSE LET i == CHOOSE x \in I : TRUE IN df[i].ms + SumOver(df, I \ {i})

\* df.groupby(col)["ms_played"].sum(), and the names over one hour.
artist_playtime(df) ==
    [a \in {df[i].artist : i \in DOMAIN df} |->
        SumOver(df, {i \in DOMAIN df : df[i].artist = a})]
album_playtime(df) ==
    [a \in {df[i].album : i \in DOMAIN df} |->
        SumOver(df, {i \in DOMAIN df : df[i].album = a})]
over_1hr(playtime) == {a \in DOMAIN playtime : playtime[a] > HourMs}

\* The grouped frame g: one row per artist, or one per (album, artist).
grouped(df, group_by) ==
    IF group_by = "artist"
    THEN {[id |-> a, artist |-> a,
           ms_total |-> SumOver(df, {i \in DOMAIN df : df[i].artist = a})] :
             a \in {df[i].artist : i \in DOMAIN df}}
    ELSE {[id |-> p[1], artist |-> p[2],
           ms_total |-> SumOver(df, {i \in DOMAIN df :
                                       df[i].album = p[1] /\ df[i].artist = p[2]})] :
             p \in {<<df[i].album, df[i].artist>> : i \in DOMAIN df}}

\* sort_values("ms_total", ascending=False) of the groups in key order: x
\* comes before y.  The default sort is not stable: rows of equal play time
\* come in key order or against it.
Ties == {"key_order", "reversed"}
KeyLess(x, y) == x.id < y.id \/ (x.id = y.id /\ x.artist < y.artist)
Before(x, y, tie) ==
    \/ x.ms_total > y.ms_total
    \/ /\ x.ms_total = y.ms_total
       /\ IF tie = "key_order" THEN KeyLess(x, y) ELSE KeyLess(y, x)

sort_values(G, tie) ==
    LET ranked == {<<1 + Cardinality({y \in G : Before(y, x, tie)}), x>> : x \in G}
    IN [p \in 1..Cardinality(G) |-> (CHOOSE r \in ranked : r[1] = p)[2]]

head(s, n) == SubSeq(s, 1, MinOf(n, Len(s)))

display_limit_fallback_only(G, over) ==
    MinOf(MinOf(Cardinality(G), MaxItems), FallbackItems)

\* The display limit: lines 275/289 and 292..295.
display_limit(G, over) ==
    LET limit == Cardinality({x \in G : x.id \in over})
        max_items == MinOf(Cardinality(G), MaxItems)
    IN MinOf(IF limit = 0 THEN MinOf(max_items, FallbackItems) ELSE limit, max_items)

bubble_rows_keeping_zero(df, group_by, tie) ==
    LET G == grouped(df, group_by)
        over == IF group_by = "artist" THEN over_1hr(artist_playtime(df))
                ELSE over_1hr(album_playtime(df))
        limit == display_limit(G, over)
        g == sort_values(G, tie)
    IN IF limit # 0 THEN head(g, limit) ELSE g

\* The items of aggregates(df, group_by), in order.
bubble_rows(df, group_by, tie) ==
    LET G == grouped(df, group_by)
        over == IF group_by = "artist" THEN over_1hr(artist_playtime(df))
                ELSE over_1hr(album_playtime(df))
        limit == display_limit(G, over)
        g == SelectSeq(sort_values(G, tie), LAMBDA x : x.ms_total > 0)
    IN IF limit # 0 THEN head(g, limit) ELSE g

\* historical_data(df, limit): the three tables, each sorted by plays,
\* most played first, and cut to the limit when the limit is truthy.
table(df, names, col) ==
    {[name |-> k,
      plays |-> Cardinality({i \in DOMAIN df : df[i][col] = k}),
      ms_played |-> SumOver(df, {i \in DOMAIN df : df[i][col] = k})] : k \in names}

MorePlays(x, y, tie) ==
    \/ x.plays > y.plays
    \/ /\ x.plays = y.plays
       /\ IF tie = "key_order" THEN x.name < y.name ELSE y.name < x.name

sort_by_plays(G, tie) ==
    LET ranked == {<<1 + Cardinality({y \in G : MorePlays(y, x, tie)}), x>> : x \in G}
    IN [p \in 1..Cardinality(G) |-> (CHOOSE r \in ranked : r[1] = p)[2]]

clamp(limit) == MaxOf(1, MinOf(limit, MaxLimit))

cut(t, limit) == IF limit # 0 THEN head(t, clamp(limit)) ELSE t

historical_tables(df, limit, tie) ==
    [artists |-> cut(sort_by_plays(table(df, {df[i].artist : i \in DOMAIN df},
                                         "artist"), tie), limit),
     albums |-> cut(sort_by_plays(table(df, {df[i].album : i \in DOMAIN df},
                                        "album"), tie), limit),
     tracks |-> cut(sort_by_plays(table(df, {df[i].track : i \in DOMAIN df},
                                        "track"), tie), limit)]

\* history.py 101-104: track_id = uri.str.replace("spotify:track:", "",
\* regex=False).  A raw id is a string made of the pieces "spotify:",
\* "track:" and "abc123"; the text replaced is the first two in a row.
\* str.replace scans from the left and drops every occurrence it meets,
\* without looking again at what it has put out.
MaxPieces == 5
Pieces == {"spotify:", "track:", "abc123"}
UriPrefix == <<"spotify:", "track:">>
RawIds == UNION {[1..n -> Pieces] : n \in 0..MaxPieces}

StartsWith(s, p) == Len(s) >= Len(p) /\ SubSeq(s, 1, Len(p)) = p

replace_keeping_prefix(s) == s

RECURSIVE replace(_)
replace(s) ==
    IF s = <<>> THEN <<>>
    ELSE IF StartsWith(s, UriPrefix)
    THEN replace(SubSeq(s, Len(UriPrefix) + 1, Len(s)))
    ELSE <<Head(s)>> \o replace(Tail(s))

\* history.py 72-106: prepare_history_dataframe(df) on the rows of a raw
\* table.  A raw cell is what the export holds: a timestamp that parses or
\* not, a play time that is missing, text, or a number, names that are
\* there or null.
RawMs == {[kind |-> "null", v |-> 0], [kind |-> "text", v |-> 0],
          [kind |-> "int", v |-> -1], [kind |-> "int", v |-> 5]}
RawRows == [ts : {"parses", "garbage"}, ms : RawMs, named : BOOLEAN]
RawTables == [missing : {FALSE},
              rows : UNION {[1..n -> RawRows] : n \in 0..MaxRows}]
                 \cup {[missing |-> TRUE, rows |-> <<>>]}

\* pd.to_datetime(errors="coerce"): NaT for what does not parse.
to_datetime(ts) == IF ts = "parses" THEN "utc" ELSE "NaT"

\* pd.to_numeric(errors="coerce").fillna(0).astype("int64")
to_numeric(ms) == IF ms.kind = "int" THEN ms.v ELSE 0

prepare_rows(t) ==
    IF t.missing THEN [ok |-> FALSE, rows |-> <<>>]
    ELSE LET kept == SelectSeq(t.rows, LAMBDA r :
                         /\ to_datetime(r.ts) # "NaT"
                         /\ r.ms.kind # "null"
                         /\ r.named)
         IN [ok |-> TRUE,
             rows |-> [i \in 1..Len(kept) |->
                          [ts |-> to_datetime(kept[i].ts),
                           ms_played |-> to_numeric(kept[i].ms)]]]

\* ------------------------------------------------- the functions, applied
\* Each behaviour picks one input and applies one function to it; last
\* holds the input (op "frame") and then the call and what it returned.
FnInput(op, x) == Req(op, 0, <<x>>)

InitFn ==
    /\ unit = "functions"
    /\ catalog = CatalogInit(TRUE)
    /\ main = MainInit
    /\ hist = HistInit
    /\ image = ImageInit(FALSE)
    /\ prewarm = [t \in Tasks |-> 0]
    /\ \/ \E df \in Frames : last = FnInput("frame", df)
       \/ \E raw \in RawIds : last = FnInput("raw_id", raw)
       \/ \E t \in RawTables : last = FnInput("raw_table", t)
    /\ thread = [t \in Threads |-> Idle]
    /\ uploaded = None

FnFinish(resp) ==
    /\ last' = resp
    /\ UNCHANGED <<unit, catalog, main, hist, image, prewarm, thread, uploaded>>

Aggregates ==
    /\ unit = "functions"
    /\ last.op = "frame"
    /\ \E group_by \in Groups, tie \in Ties :
           FnFinish([Req("aggregates", 0, <<last.req[1], group_by, tie>>) EXCEPT
                        !.payload = [kind |-> "items",
                                     items |-> bubble_rows(last.req[1], group_by, tie)]])

\* The limits historical_data() is given: the route passes 1..500, the
\* function takes any integer.
HistLimits == {-1, 0, 1, 2, MaxLimit, 10000}

HistoricalData ==
    /\ unit = "functions"
    /\ last.op = "frame"
    /\ \E limit \in HistLimits, tie \in Ties :
           /\ Len(last.req[1]) > MaxItems + 1 => limit >= MaxLimit
           /\ FnFinish([Req("historical_data", 0, <<last.req[1], limit, tie>>) EXCEPT
                           !.payload = [kind |-> "tables",
                                        tables |-> historical_tables(last.req[1], limit, tie)]])

\* The normalization of a raw id, and of the id that came out of it.
NormalizeTrackId ==
    /\ unit = "functions"
    /\ \/ /\ last.op = "raw_id"
          /\ FnFinish([Req("track_id", 0, <<last.req[1], 1>>) EXCEPT
                          !.payload = [kind |-> "id", of |-> last.req[1],
                                       id |-> replace(last.req[1])]])
       \/ /\ last.op = "track_id"
          /\ last.req[2] = 1
          /\ FnFinish([Req("track_id", 0, <<last.req[1], 2>>) EXCEPT
                          !.payload = [kind |-> "id", of |-> last.payload.id,
                                       id |-> replace(last.payload.id)]])

PrepareHistoryDataframe ==
    /\ unit = "functions"
    /\ last.op = "raw_table"
    /\ FnFinish([Req("prepare", IF prepare_rows(last.req[1]).ok THEN 0 ELSE 400,
                     <<last.req[1]>>) EXCEPT
                    !.payload = [kind |-> "frame",
                                 rows |-> prepare_rows(last.req[1]).rows]])

NextFn ==
    \/ Aggregates
    \/ HistoricalData
    \/ NormalizeTrackId
    \/ PrepareHistoryDataframe

SpecFn == InitFn /\ [][NextFn]_vars

\* ------------------------------------------------------------ properties
\* The response of a call that replaced the snapshot: a successful upload,
\* a set_df, or any call in which load_df() returned a frame.
Replaced(l) ==
    \/ l.op = "upload" /\ l.status = 200
    \/ l.op = "set_df"
    \/ l.load \in DefaultSources

Version == IF unit = "history" THEN hist.dataset_version ELSE main.dataset_version

\* C1: the dataset version never decreases and never restarts; a step moves
\* it by at most one, and every call that replaces the snapshot moves it by
\* exactly one, so two replacements never leave the same version.
C1_VersionStepsByOne ==
    [][/\ Version' \in {Version, Version + 1}
       /\ Replaced(last') => Version' = Version + 1]_vars

C1_Witness ==
    /\ unit = "main"
    /\ last.op = "upload" /\ last.status = 200
    /\ main.dataset_version = 2

\* What a read route answered from, and the entry its request names.
RespCache(m, op) ==
    IF op = "bubbles" THEN m.resp_cache_bubbles ELSE m.resp_cache_historical

ReqKey(m, l) == <<m.dataset_version, l.req[1], l.req[2]>>

ResponseKeys(m) ==
    DOMAIN m.resp_cache_bubbles \cup DOMAIN m.resp_cache_summary
        \cup DOMAIN m.resp_cache_historical

C3_DerivedIndexHasNoEarlierVersion ==
    Replaced(last) =>
        /\ \A k \in DOMAIN main.build_dicts_cache_map : k[1] >= main.dataset_version
        /\ \A k \in DOMAIN hist.build_dicts_cache_map : k[1] >= hist.dataset_version

\* C4: no call on the running process (the constructor of a new process
\* apart) removes an id from the metadata cache, and the calls that replace
\* the dataset (upload, revert to default) leave the metadata cache exactly
\* as it was.
C4_MetadataStoreOnlyGrows ==
    [][/\ last'.op # "construct" => DOMAIN image.cache \subseteq DOMAIN image'.cache
       /\ last'.op \in {"upload", "use_default"} => image' = image]_vars

C4_Witness ==
    /\ unit = "image_cache"
    /\ last.op = "cache_image"
    /\ last.req[1] = "a1"
    /\ DOMAIN image.cache = Ids

\* C5: a call that replaces history.py's snapshot returns normally with the
\* new frame and label installed and the version one higher, and by then
\* every registered listener, the raising one included, has been called
\* exactly once, in registration order, with that new version.
Notifications(listeners, version) ==
    [i \in 1..Len(listeners) |-> <<listeners[i], version>>]

C5_EveryListenerCalledOnce ==
    [][(unit = "history" /\ Replaced(last')) =>
         /\ last'.status = 200
         /\ hist'.dataset_version = hist.dataset_version + 1
         /\ last'.notified = Notifications(hist.change_listeners,
                                           hist.dataset_version + 1)
         /\ hist'.change_listeners = hist.change_listeners
         /\ last'.op = "set_df" => /\ hist'.df_cache = last'.file
                                   /\ hist'.data_source = last'.source
         /\ last'.op = "get_df" => hist'.df_cache = last'.load]_vars

C5_Witness ==
    /\ unit = "history"
    /\ last.op = "set_df" /\ last.status = 200
    /\ Len(last.notified) = 3
    /\ last.notified[1][1] = "raising"
    /\ hist.dataset_version = 2

Store == IF unit = "history" THEN hist ELSE main

ReadOps == {"summary", "bubbles", "historical", "get_df"}

\* C7: a read that finds no snapshot and does not fail has loaded the
\* default source, left it as the snapshot under the label "default" and
\* moved the version by one; a read that finds a snapshot loads nothing and
\* leaves snapshot, label and version as they are (get_df returns that
\* snapshot).
C7_LazyLoadTagsDefault ==
    [][(last'.op \in ReadOps /\ last'.status # 500) =>
         /\ Store.df_cache = None =>
               /\ last'.load \in DefaultSources
               /\ Store'.df_cache = last'.load
               /\ Store'.data_source = "default"
               /\ Store'.dataset_version = Store.dataset_version + 1
         /\ Store.df_cache # None =>
               /\ last'.load = None
               /\ Store'.df_cache = Store.df_cache
               /\ Store'.data_source = Store.data_source
               /\ Store'.dataset_version = Store.dataset_version
         /\ last'.op = "get_df" => last'.payload.snap = Store'.df_cache]_vars

\* C8: when the call before was a successful use-default and this call is a
\* use-default too, it answers idempotent with the same row count and
\* changes nothing.
C8_SecondUseDefaultIsIdempotent ==
    [][(unit = "main" /\ last.op = "use_default" /\ last.status = 200
            /\ last'.op = "use_default") =>
         /\ last'.status = 200
         /\ last'.idempotent
         /\ last'.rows = last.rows
         /\ main' = main /\ image' = image /\ prewarm' = prewarm]_vars

C8_Witness ==
    /\ unit = "main"
    /\ last.op = "use_default" /\ last.idempotent
    /\ last.rows = Rows("d1")
    /\ main.dataset_version = 2

\* C9: an upload is rejected with 400 exactly when the file has no name, is
\* empty, of an unsupported type, unparseable or lacks a required column,
\* and a rejected upload changes nothing.
C9_RejectedUploadChangesNothing ==
    [][last'.op = "upload" =>
         /\ last'.status = 400 <=> last'.file \in BadUploads
         /\ last'.status # 400 => last'.status = 200
         /\ last'.file \in BadUploads =>
               /\ main' = main /\ image' = image /\ prewarm' = prewarm]_vars

C9_Witness ==
    /\ unit = "main"
    /\ last.op = "upload" /\ last.status = 400
    /\ last.file = "missing_columns"
    /\ main.data_source = "default"
    /\ ResponseKeys(main) # {}

\* C10: while an upload has returned success and no later upload or revert
\* has been requested, the store holds the uploaded frame under the label
\* "uploaded", whatever calls that started earlier do when they finish.
C10_UploadedSnapshotStays ==
    uploaded # None =>
        /\ Store.df_cache = uploaded
        /\ Store.data_source = "uploaded"

\* C11: the constructor of the metadata cache ends normally whatever it
\* finds; the map it leaves is the S3 object's content when S3 is
\* configured, the read succeeds and the content is a non-empty map, and
\* then the mirror file holds that content too unless writing it failed;
\* otherwise the map is the local file's content, or empty when that file is
\* missing or cannot be read as JSON.
C11_ConstructionLoadsRemoteElseLocal ==
    [][last'.op = "construct" =>
           LET found == last'.req[1]
               s3read == last'.req[2]
               io == last'.req[3]
               remote == image.s3_configured /\ s3read = "ok" /\ image.s3_object # EmptyMap
           IN /\ last'.status = 200
              /\ remote => /\ image'.cache = image.s3_object
                            /\ io = "ok" => /\ image'.local_file = image.s3_object
                                             /\ image'.local_state = "written"
              /\ ~remote => image'.cache = IF found = "written"
                                            THEN image.local_file
                                            ELSE EmptyMap]_vars

\* C12: save_cache returns normally whatever the two writes do; the map in
\* memory is as before; the S3 object becomes the map whenever S3 is
\* configured and its write succeeds, also when the local write failed; a
\* failed write leaves its target as it was.
C12_FlushSwallowsWriteFailures ==
    [][last'.op = "save_cache" =>
           LET io == last'.req[1] IN
           /\ last'.status = 200
           /\ image'.cache = image.cache
           /\ image.s3_configured /\ io.s3 = "ok" => image'.s3_object = image.cache
           /\ ~(image.s3_configured /\ io.s3 = "ok") => image'.s3_object = image.s3_object
           /\ io.local = "ok" => image'.local_file = image.cache
           /\ io.local = "fail" => image'.local_file = image.local_file]_vars

C12_Witness ==
    /\ last.op = "save_cache"
    /\ last.req[1] = [local |-> "fail", s3 |-> "ok"]
    /\ image.s3_configured
    /\ image.cache # EmptyMap
    /\ image.s3_object = image.cache
    /\ image.local_file # image.cache

\* The batch requests among the requests a call sent, and sequences of
\* sequences laid end to end.
BatchRequests(log) == SelectSeq(log, LAMBDA q : q.to # "token")

RECURSIVE Flatten(_)
Flatten(ss) == IF Len(ss) = 0 THEN <<>> ELSE Head(ss) \o Flatten(Tail(ss))

BatchOps == {"batch_tracks", "batch_artists"}

\* C13, as stated: every call of batch_tracks / batch_artists that returns
\* a list for n ids has sent exactly ceil(n/50) batch requests of at most 50
\* ids each, which together carry the ids once each in input order, and the
\* list is the responses laid end to end.
C13_EveryReturningCallSendsCeilBatches ==
    [][last'.op \in BatchOps /\ last'.status = 200 =>
           LET kind == last'.req[1]
               ids == last'.req[2]
               env == last'.req[3]
               sent == BatchRequests(last'.requests)
           IN /\ Len(sent) = (Len(ids) + BatchSize - 1) \div BatchSize
              /\ \A i \in 1..Len(sent) : Len(sent[i].ids) <= BatchSize
              /\ Flatten([i \in 1..Len(sent) |-> sent[i].ids]) = ids
              /\ last'.payload.out =
                     Flatten([i \in 1..Len(sent) |->
                                 batch_response(kind, sent[i].ids, env)])]_vars

\* C13, amended: a call whose id tuple is not memoised and whose requests
\* all succeed sends exactly ceil(n/50) batch requests of at most 50 ids
\* each, which together carry the ids once each in input order, and returns
\* the responses laid end to end in request order; a call on a memoised
\* tuple sends no request and returns the memoised list; a call that fails
\* has sent a prefix of those batch requests.
C13_ComputedCallSendsCeilBatches ==
    [][last'.op \in BatchOps =>
           LET kind == last'.req[1]
               ids == last'.req[2]
               env == last'.req[3]
               sent == BatchRequests(last'.requests)
               all == chunks(ids, BatchSize)
           IN /\ last'.hit <=> Has(catalog.memo, <<kind, ids>>)
              /\ last'.hit =>
                     /\ last'.requests = <<>>
                     /\ last'.payload.out = catalog.memo[<<kind, ids>>]
              /\ ~last'.hit /\ last'.status = 200 =>
                     /\ Len(sent) = (Len(ids) + BatchSize - 1) \div BatchSize
                     /\ \A i \in 1..Len(sent) :
                            /\ sent[i].to = kind
                            /\ Len(sent[i].ids) <= BatchSize
                            /\ Len(sent[i].ids) >= 1
                     /\ Flatten([i \in 1..Len(sent) |-> sent[i].ids]) = ids
                     /\ last'.payload.out =
                            Flatten([i \in 1..Len(sent) |->
                                        batch_response(kind, sent[i].ids, env)])
              /\ last'.status # 200 =>
                     /\ Len(sent) <= Len(all)
                     /\ \A i \in 1..Len(sent) : sent[i].ids = all[i]]_vars

C13_Witness ==
    /\ last.op = "batch_tracks"
    /\ last.status = 200
    /\ ~last.hit
    /\ Len(last.req[2]) = 2 * BatchSize + 1
    /\ Len(BatchRequests(last.requests)) = 3
    /\ Len(last.payload.out) = 2 * BatchSize + 1

\* C14: a call of batch_tracks / batch_artists that meets a non-200 answer,
\* from the token endpoint or from any of its batch requests, ends with 502,
\* returns nothing of the batches that succeeded before and leaves the memo
\* as it was; a call returns a list, and memoises it under its id tuple,
\* only when every request it sent succeeded, so every memoised list is a
\* whole one.
C14_BatchCallIsAllOrNothing ==
    [][last'.op \in BatchOps /\ ~last'.hit =>
           LET kind == last'.req[1]
               ids == last'.req[2]
               env == last'.req[3]
               token_failed == TokenAsked(catalog, env) /\ env.token = "status"
               batch_failed == env.bad > 0 /\ env.bad_kind = "status"
               has_token == IF TokenValid(catalog.token_cache, env.now) THEN TRUE
                            ELSE catalog.credentials /\ env.token = "ok"
               none_failed == env.bad = 0 /\ (Len(ids) > 0 => has_token)
           IN /\ Len(ids) > 0 /\ (token_failed \/ batch_failed) =>
                     /\ last'.status = 502
                     /\ last'.payload = NoPayload
                     /\ catalog'.memo = catalog.memo
              /\ last'.status = 200 <=> none_failed
              /\ last'.status = 200 =>
                     /\ catalog'.memo = Put(catalog.memo, <<kind, ids>>, last'.payload.out)
                     /\ Len(last'.payload.out) = Len(ids)
              /\ last'.status # 200 =>
                     /\ last'.payload = NoPayload
                     /\ catalog'.memo = catalog.memo
              /\ \A key \in DOMAIN catalog'.memo : Len(catalog'.memo[key]) = Len(key[2])]_vars

C14_Witness ==
    /\ last.op = "batch_tracks"
    /\ last.status = 502
    /\ last.req[3].bad = 3
    /\ Len(BatchRequests(last.requests)) = 3
    /\ last.payload = NoPayload
    /\ catalog.memo = EmptyMap

\* C15, as stated: get_app_token returns the cached token without a
\* request exactly when a token is cached and more than 60 seconds remain
\* before its expiry; in every other case it sends a token request, and a
\* 200 answer replaces the cached pair while another status raises 502 and
\* leaves the pair as it was.
C15_TokenRequestedWheneverNotFresh ==
    [][last'.op = "get_app_token" =>
           LET env == last'.req[1]
               tc == catalog.token_cache
               fresh == tc.access_token.set /\ tc.expires_at - env.now > 60
           IN /\ fresh <=> /\ last'.requests = <<>>
                            /\ last'.status = 200
                            /\ last'.payload.token = tc.access_token
              /\ ~fresh => Len(last'.requests) = 1]_vars

\* C15, amended: get_app_token returns the cached token without a request
\* exactly when a token is cached and more than 60 seconds remain before its
\* expiry; otherwise, when the credentials are not configured, it raises 503
\* without a request and leaves the cached pair as it was; otherwise it
\* sends one token request, and a 200 answer replaces the cached pair by the
\* new token and the time of the call plus its lifetime, while another
\* status raises 502 (a failed connection: the library's exception) and
\* leaves the pair as it was.
C15_TokenCachedUntilSixtySecondsBeforeExpiry ==
    [][last'.op = "get_app_token" =>
           LET env == last'.req[1]
               tc == catalog.token_cache
               fresh == tc.access_token.set /\ tc.expires_at - env.now > 60
           IN /\ fresh <=> /\ last'.requests = <<>>
                            /\ last'.status = 200
                            /\ last'.payload.token = tc.access_token
              /\ fresh => catalog'.token_cache = tc
              /\ ~fresh /\ ~catalog.credentials =>
                     /\ last'.status = 503
                     /\ last'.requests = <<>>
                     /\ catalog'.token_cache = tc
              /\ ~fresh /\ catalog.credentials =>
                     /\ last'.requests = <<[to |-> "token", ids |-> <<>>]>>
                     /\ env.token = "ok" =>
                            /\ last'.status = 200
                            /\ catalog'.token_cache =
                                   [access_token |-> last'.payload.token,
                                    expires_at |-> env.now + env.expires_in]
                            /\ last'.payload.token.set
                     /\ env.token = "status" =>
                            /\ last'.status = 502
                            /\ catalog'.token_cache = tc
                     /\ env.token = "network" =>
                            /\ last'.status = 500
                            /\ catalog'.token_cache = tc]_vars

C15_Witness ==
    /\ last.op = "get_app_token"
    /\ last.req[1].now = 30
    /\ last.requests = <<>>
    /\ last.status = 200
    /\ last.payload.token = Token(0)
    /\ catalog.token_cache.expires_at = 3600

\* C16: whatever the catalog call ends with inside hydration (a non-200
\* answer or missing credentials, a timeout or connection error), for the
\* track fetch and for the artist fetch, the bubbles request that computes
\* returns normally with the grouped summary.
C16_HydrationAbsorbsEveryCatalogFailure ==
    [][/\ last'.op = "bubbles"
       /\ last'.fetch.tracks # "found" \/ last'.fetch.artists # "found"
       => /\ last'.status = 200
          /\ last'.payload.kind = "bubbles"]_vars

RouteOps == {"tracks_batch", "artists_batch"}
Range(seq) == {seq[n] : n \in 1..Len(seq)}

\* C18: a batch lookup that returns lists exactly the requested ids that
\* are resolved, by a usable cached object or by the catalog, each once,
\* with that object, in the order of their first occurrence in the request;
\* the other ids are left out and the call still returns normally.
C18_BatchLookupOrderedDedupedResolved ==
    [][last'.op \in RouteOps /\ last'.status = 200 =>
           LET kind == last'.req[1]
               ids == last'.req[2]
               out == last'.payload.out
               fetches == ~catalog.demo_mode /\ catalog.credentials
               Resolved(i) == RouteHit(image, kind, i) \/ (fetches /\ i \notin UnknownIds)
               Obj(i) == IF RouteHit(image, kind, i) THEN image.cache[i]
                         ELSE CatalogObject(kind, i)
               First == [i \in Range(ids) |->
                            CHOOSE p \in 1..Len(ids) :
                                ids[p] = i /\ \A q \in 1..(p - 1) : ids[q] # i]
           IN /\ \A n \in 1..Len(out) :
                     /\ out[n].id \in Range(ids)
                     /\ Resolved(out[n].id)
                     /\ out[n] = Obj(out[n].id)
              /\ \A i \in Range(ids) : Resolved(i) => \E n \in 1..Len(out) : out[n].id = i
              /\ \A n \in 1..(Len(out) - 1) : First[out[n].id] < First[out[n + 1].id]]_vars

C18_Witness ==
    /\ last.op = "tracks_batch"
    /\ last.status = 200
    /\ last.req[2] = <<2, BatchSize + 1, 1, 2>>
    /\ last.requests = <<[to |-> "tracks", ids |-> <<2, BatchSize + 1>>]>>
    /\ last.payload.out = <<CatalogObject("tracks", 2), CatalogObject("tracks", 1)>>

\* C19: in /api/tracks-batch and in /api/artists-batch, a non-2xx answer of
\* the catalog to any chunk ends the request with 502, returns nothing, and
\* leaves the metadata cache and its file as they were: nothing of the
\* chunks that succeeded before is cached or flushed.
C19_FailedChunkGives502AndCachesNothing ==
    [][/\ last'.op \in RouteOps
       /\ last'.req[3].bad > 0
       /\ last'.req[3].bad_kind = "status"
       => /\ last'.status = 502
          /\ last'.payload = NoPayload
          /\ image' = image]_vars

\* The bubbles request for (f, g) that ended last missed the cache and
\* computed, and the dataset is at version v.
BubblesComputed(v, f, g) ==
    /\ last.op = "bubbles"
    /\ last.status = 200
    /\ ~last.hit
    /\ last.req = <<f, g>>
    /\ main.dataset_version = v

PrewarmFilled(v, f, g) ==
    /\ Has(main.resp_cache_bubbles, <<v, f, other_group(g)>>)
    /\ Has(main.resp_cache_historical, <<v, f, 200>>)

\* C20: once a bubbles request for (f, g) has missed the cache and computed
\* at version v, then, unless the dataset is replaced, the response cache
\* eventually holds an entry for (v, f, the other grouping) and a
\* historical entry for (v, f, 200); the closure leaves every entry that
\* already exists as it is, and a request served from the cache starts no
\* closure.
C20_PrewarmEventuallyFillsOtherViews ==
    /\ [][last'.op = "prewarm" =>
             /\ \A k \in DOMAIN main.resp_cache_bubbles :
                    /\ Has(main'.resp_cache_bubbles, k)
                    /\ main'.resp_cache_bubbles[k] = main.resp_cache_bubbles[k]
             /\ \A k \in DOMAIN main.resp_cache_historical :
                    /\ Has(main'.resp_cache_historical, k)
                    /\ main'.resp_cache_historical[k] = main.resp_cache_historical[k]]_vars
    /\ [][last'.op = "bubbles" /\ last'.hit => prewarm' = prewarm]_vars
    /\ \A v \in 1..MaxVersion : \A f \in GoodFilters : \A g \in Groups :
           BubblesComputed(v, f, g)
               ~> (PrewarmFilled(v, f, g) \/ main.dataset_version # v)

\* Every entry of the map old is in the map new, with the value it had.
Kept(old, new) ==
    \A k \in DOMAIN old : Has(new, k) /\ new[k] = old[k]

\* The closure ended on an exception: the catalog lookup of its hydration
\* failed in the network.
PrewarmFailed(l) ==
    /\ l.op = "prewarm"
    /\ (l.fetch.tracks = "network" \/ l.fetch.artists = "network")

\* C21: a bubbles request that computed has returned its payload while the
\* closure it started is still to run; a run of the closure, failing or
\* not, gives no response to any caller and leaves every entry that the
\* response caches and the derived-index cache held before it as it was, so
\* the payload already returned (the stored entry) is not altered.
C21_PrewarmFailureIsSwallowed ==
    [][/\ (last'.op = "bubbles" /\ last'.status = 200 /\ ~last'.hit) =>
              /\ prewarm'[[filter |-> last'.req[1], group |-> last'.req[2]]] > 0
              /\ last'.payload.kind = "bubbles"
       /\ last'.op = "prewarm" =>
              /\ last'.status = 0
              /\ last'.payload = NoPayload
              /\ Kept(main.resp_cache_bubbles, main'.resp_cache_bubbles)
              /\ Kept(main.resp_cache_summary, main'.resp_cache_summary)
              /\ Kept(main.resp_cache_historical, main'.resp_cache_historical)
              /\ Kept(main.build_dicts_cache_map, main'.build_dicts_cache_map)
              /\ PrewarmFailed(last') =>
                     /\ main'.resp_cache_bubbles = main.resp_cache_bubbles
                     /\ main'.resp_cache_historical = main.resp_cache_historical]_vars

C21_Witness ==
    /\ PrewarmFailed(last)
    /\ main.resp_cache_bubbles # EmptyMap
    /\ main.resp_cache_summary # EmptyMap

\* The play time of artist a in the frame df, summed row by row.
PlayTimeOf(df, a) == SumOver(df, {i \in DOMAIN df : df[i].artist = a})
ArtistsOf(df) == {df[i].artist : i \in DOMAIN df}
OverHour(df) == {a \in ArtistsOf(df) : PlayTimeOf(df, a) > HourMs}

\* C22: in the artist view of a frame in which exactly k artists, 1 <= k <=
\* 160, have played over one hour, the items are exactly those k artists,
\* each with its play time, in descending order of play time.
C22_ArtistViewReturnsTheArtistsOverOneHour ==
    (last.op = "aggregates" /\ last.req[2] = "artist") =>
        LET df == last.req[1]
            items == last.payload.items
            k == Cardinality(OverHour(df))
        IN (1 <= k /\ k <= MaxItems) =>
               /\ Len(items) = k
               /\ {items[p].id : p \in 1..Len(items)} = OverHour(df)
               /\ \A p \in 1..Len(items) :
                      items[p].ms_total = PlayTimeOf(df, items[p].id)
               /\ \A p \in 1..(Len(items) - 1) :
                      items[p].ms_total >= items[p + 1].ms_total

\* 3 of 10 artists over one hour, and 160 of 161.
C22_Witness ==
    /\ last.op = "aggregates"
    /\ last.req[2] = "artist"
    /\ last.req[1] = RankedFrame(MaxItems + 1, MaxItems)
    /\ Len(last.payload.items) = MaxItems

\* C23: no item of the grouped summary has a play time of 0 ms, in either
\* view, whatever the display limit came to.
C23_NoZeroPlayTimeGroupInOutput ==
    last.op = "aggregates" =>
        \A p \in 1..Len(last.payload.items) : last.payload.items[p].ms_total # 0

\* A frame with a group of 0 ms among played ones, and the limit from the
\* fallback.
C23_Witness ==
    /\ last.op = "aggregates"
    /\ \E i \in DOMAIN last.req[1] : last.req[1][i].ms = 0
    /\ OverHour(last.req[1]) = {}
    /\ Len(last.payload.items) > 0
    /\ Len(last.payload.items) < Cardinality(ArtistsOf(last.req[1]))

\* C24: each of the three tables of historical_data(df, limit) has at most
\* min(max(limit, 1), 500) rows, for every integer limit: at most 500 for
\* limit 10000, one row for limit 0.
C24_HistoricalTablesWithinClampedLimit ==
    last.op = "historical_data" =>
        LET most == MinOf(MaxOf(last.req[2], 1), MaxLimit)
            t == last.payload.tables
        IN /\ Len(t.artists) <= most
           /\ Len(t.albums) <= most
           /\ Len(t.tracks) <= most

\* C25 as stated: "spotify:track:abc123" becomes "abc123", and for every
\* raw id the normalization of the normalized id returns it unchanged.
C25_NormalizationIdempotentOnEveryString ==
    last.op = "track_id" =>
        /\ last.payload.of = UriPrefix \o <<"abc123">> => last.payload.id = <<"abc123">>
        /\ last.req[2] = 2 => last.payload.id = last.payload.of

\* A raw id of the URI form: the prefix, once or not at all, and then an id
\* with no piece of the prefix in it.
UriForm(raw) ==
    LET rest == IF StartsWith(raw, UriPrefix)
                THEN SubSeq(raw, Len(UriPrefix) + 1, Len(raw)) ELSE raw
    IN \A i \in 1..Len(rest) : rest[i] = "abc123"

\* C25: "spotify:track:abc123" becomes "abc123"; the normalization of a raw
\* id of the URI form is that id without its prefix, and normalizing it
\* again returns it unchanged.
C25_NormalizationIdempotentOnUriForm ==
    last.op = "track_id" =>
        /\ last.payload.of = UriPrefix \o <<"abc123">> => last.payload.id = <<"abc123">>
        /\ UriForm(last.req[1]) =>
               /\ ~StartsWith(last.payload.id, UriPrefix)
               /\ last.req[2] = 2 => last.payload.id = last.payload.of

C25_Witness ==
    /\ last.op = "track_id"
    /\ last.req = <<UriPrefix \o <<"abc123">>, 2>>
    /\ last.payload.of = <<"abc123">>
    /\ last.payload.id = <<"abc123">>

\* C26: every row prepare_history_dataframe keeps of a table that has the
\* required columns has a timestamp that parsed and a play time of 0 ms or
\* more.
C26_RetainedRowsHaveTimestampAndNonNegativePlayTime ==
    (last.op = "prepare" /\ last.status = 0) =>
        \A i \in 1..Len(last.payload.rows) :
            /\ last.payload.rows[i].ts = "utc"
            /\ last.payload.rows[i].ms_played >= 0

\* No call is in progress: every thread is idle or has returned.
Quiescent == \A t \in RaceThreads : thread[t].at \in {"idle", "done"}

\* The threads whose call replaced the dataset (an upload, a revert to the
\* default, a lazy first load).
Replacers == {t \in RaceThreads : thread[t].at = "done" /\ thread[t].replaced}

\* C27: whatever the interleaving of readers and replacements, a
\* derived-index entry stored under (v, f) was computed from the snapshot of
\* version v; once every call has returned, each entry under the current
\* version holds mappings of the current snapshot.
C27_DerivedIndexEntryMatchesItsVersion ==
    (unit = "race" /\ Quiescent) =>
        \A key \in DOMAIN main.build_dicts_cache_map :
            key[1] = main.dataset_version =>
                main.build_dicts_cache_map[key].snap = main.df_cache

\* C28: concurrent replacements each swap the snapshot and increment the
\* version as one step, and lose no increment: once every call has returned
\* the version is the number of replacements (it starts at 0), no two
\* replacements wrote the same version, and the replacement that wrote the
\* current version is the one whose snapshot is installed.
C28_ReplacementsAreAtomic ==
    (unit = "race" /\ Quiescent) =>
        /\ main.dataset_version = Cardinality(Replacers)
        /\ \A t1, t2 \in Replacers :
               thread[t1].version = thread[t2].version => t1 = t2
        /\ \A t \in Replacers :
               thread[t].version = main.dataset_version =>
                   thread[t].snap = main.df_cache

\* C29: whenever no request and no prewarm task is in flight, every key in
\* the three response caches carries the current dataset version.
C29_QuiescentResponseKeysAreCurrent ==
    (unit = "main" /\ \A t \in Tasks : prewarm[t] = 0) =>
        \A key \in ResponseKeys(main) : key[1] = main.dataset_version

\* C30: for summary, bubbles and historical, a request that follows at once
\* a request of the same route with the same filters and parameters which
\* returned a payload is answered from the response cache, the first
\* request having triggered the lazy load or not.
C30_RepeatedRequestIsServedFromCache ==
    [][(/\ unit = "main"
        /\ last.op \in {"summary", "bubbles", "historical"}
        /\ last.status = 200
        /\ last'.op = last.op
        /\ last'.req = last.req) => last'.hit]_vars

\* The last call computed a grouped summary while the catalog failed with an
\* HTTPException, which hydration suppressed, and did not load the dataset.
SuppressedFetchFailure(l) ==
    /\ l.op = "bubbles" /\ l.status = 200 /\ ~l.hit /\ l.load = None
    /\ l.fetch.tracks = "http" \/ l.fetch.artists = "http"

\* C31: the request that follows a grouped-summary request whose catalog
\* fetch failed and was suppressed, for the same grouping and filter window
\* at the same dataset version, runs hydration again (it is computed, not
\* served from the response cache), so the missing ids are asked again.
C31_RequestAfterSuppressedFailureFetchesAgain ==
    [][(/\ unit = "main"
        /\ SuppressedFetchFailure(last)
        /\ last'.op = "bubbles"
        /\ last'.req = last.req
        /\ main'.dataset_version = main.dataset_version) => ~last'.hit]_vars

\* C32: a save_cache that ran while cache_image ran on another thread
\* returns without raising, and each content it persisted is the map as it
\* was at one instant of the call.
C32_FlushNeverRaisesAndPersistsOneInstant ==
    unit = "flush" =>
        \A t \in Threads :
            thread[t].at = "done" =>
                /\ ~thread[t].raised
                /\ thread[t].files \subseteq thread[t].seen

\* C33: when several calls find the token missing or within 60 seconds of
\* its expiry at the same time, at most one request to the token endpoint
\* is under way.
C33_AtMostOneTokenRequestAtATime ==
    unit = "token" => Cardinality({t \in Threads : thread[t].at = "post"}) <= 1

\* The (album, artist) groups of df whose own play time is over one hour.
GroupsOverHour(df) == {x \in grouped(df, "album") : x.ms_total > HourMs}

\* C37: in the album view, when at least one (album, artist) group has
\* played over one hour, the items are as many as the groups over one hour
\* (160 at most) and each of them has played over one hour.
C37_AlbumViewReturnsTheGroupsOverOneHour ==
    (last.op = "aggregates" /\ last.req[2] = "album") =>
        LET items == last.payload.items
            k == Cardinality(GroupsOverHour(last.req[1]))
        IN k >= 1 =>
               /\ Len(items) = MinOf(k, MaxItems)
               /\ \A p \in 1..Len(items) : items[p].ms_total > HourMs

\* The input of the last hydration call and the catalog calls it made.
HydRepIds ==
    LET reps == representative_tracks(last.req[1], last.req[2], last.req[3])
    IN {reps[id] : id \in DOMAIN reps}
HydCachedComplete ==
    {t \in HydRepIds : t \in DOMAIN last.req[4] /\ last.req[4][t].has_album}
HydCalls(kind) == SelectSeq(last.payload.log, LAMBDA e : e.ev = kind)

\* C34: one hydration call never asks the catalog for a representative
\* track id whose cache entry is present and complete, asks for every other
\* distinct representative id, all of them in one call, and counts
\* tracks_cache_hits + tracks_cache_misses = the number of distinct
\* representative ids.
C34_CachedIdsAreNotFetchedOthersOnce ==
    last.op = "hydrate" =>
        LET calls == HydCalls("tracks")
            missing == HydRepIds \ HydCachedComplete
        IN /\ Len(calls) = (IF missing = {} THEN 0 ELSE 1)
           /\ \A n \in 1..Len(calls) : calls[n].ids = missing
           /\ last.payload.stats.tracks_cache_hits = Cardinality(HydCachedComplete)
           /\ last.payload.stats.tracks_cache_misses = Cardinality(missing)
           /\ last.payload.stats.tracks_cache_hits + last.payload.stats.tracks_cache_misses
                  = Cardinality(HydRepIds)

\* Two representative ids, one cached with its album and one not: the
\* catalog is asked for the second alone.
C34_Witness ==
    /\ last.op = "hydrate"
    /\ HydRepIds = {"t1", "t2"}
    /\ HydCachedComplete = {"t1"}
    /\ Len(HydCalls("tracks")) = 1
    /\ HydCalls("tracks")[1].ids = {"t2"}

\* The log of the last hydration call, and whether the catalog call of an
\* event stored anything: it did when the catalog returned the objects.
HydLog == last.payload.log
HydSaves == {n \in DOMAIN HydLog : HydLog[n].ev = "save_cache"}
HydFetches == {n \in DOMAIN HydLog : HydLog[n].ev # "save_cache"}
HydStored(n) == last.req[5][HydLog[n].ev] = "found"

\* C35 as the spec states it: the cache is saved only if the call stored
\* something, then exactly once, after every catalog call, with every
\* fetched object in the cache.
C35_FlushesOnceAtTheEnd ==
    last.op = "hydrate" =>
        /\ Cardinality(HydSaves) = (IF \E n \in HydFetches : HydStored(n) THEN 1 ELSE 0)
        /\ \A n \in HydSaves : n = Len(HydLog)
        /\ \A n \in HydSaves : \A m \in HydFetches : HydStored(m) =>
               \A i \in HydLog[m].ids :
                   /\ i \in DOMAIN HydLog[n].cache
                   /\ HydLog[n].cache[i] = CatalogObj(HydLog[m].ev, i)

\* C35 as the code has it: each of the two fetch blocks (tracks, then
\* artists) saves the cache right after its catalog call if and only if that
\* call stored at least one object, with every object the call returned in
\* the cache at the save; one call saves at most twice.
C35_EachFetchBlockFlushesOnce ==
    last.op = "hydrate" =>
        /\ \A n \in HydSaves :
               /\ n - 1 \in HydFetches
               /\ HydStored(n - 1)
               /\ \A i \in HydLog[n - 1].ids :
                      /\ i \in DOMAIN HydLog[n].cache
                      /\ HydLog[n].cache[i] = CatalogObj(HydLog[n - 1].ev, i)
        /\ \A m \in HydFetches : HydStored(m) => m + 1 \in HydSaves
        /\ Cardinality({n \in HydFetches : HydLog[n].ev = "tracks"}) <= 1
        /\ Cardinality({n \in HydFetches : HydLog[n].ev = "artists"}) <= 1
        /\ \A n, m \in HydFetches :
               (HydLog[n].ev = "tracks" /\ HydLog[m].ev = "artists") => n < m
        /\ Cardinality(HydSaves) <= 2

\* An artist-view call that fetched tracks and then artists: two saves, the
\* first before the artists were asked for.
C35_Witness ==
    /\ last.op = "hydrate"
    /\ Len(HydLog) = 4
    /\ HydSaves = {2, 4}
    /\ HydLog[1].ev = "tracks"
    /\ HydLog[3].ev = "artists"

\* The objects the last hydration call resolved for item i, read from the
\* cache it left: the track of the id it attached, and in the artist view
\* the artist chosen from that track.
HydTrack(i) ==
    LET rep == last.payload.items[i].representative_track_id
    IN IF rep # None /\ Complete("tracks", last.payload.cache, rep)
       THEN last.payload.cache[rep] ELSE NullObj
HydArtist(i) ==
    LET aid == IF last.req[2] = "artist"
               THEN chosen_artist(last.req[1][i].id, HydTrack(i)) ELSE None
    IN IF aid # None /\ Complete("artists", last.payload.cache, aid)
       THEN last.payload.cache[aid] ELSE NullObj

\* C36: after hydration an item's image_url is the resolved artist's first
\* image when the artist has images (artist view), else the image_url it
\* carried, else the first image of the album of its representative track,
\* else absent; an image the item carried is replaced by an artist's image
\* or not at all.
C36_ImagePrecedence ==
    last.op = "hydrate" =>
        \A i \in DOMAIN last.payload.items :
            LET carried == last.req[1][i].image_url
                url == last.payload.items[i].image_url
            IN /\ url = (IF HydArtist(i).images # <<>> THEN Head(HydArtist(i).images)
                         ELSE IF carried # None THEN carried
                         ELSE IF HydTrack(i).album_images # <<>>
                         THEN Head(HydTrack(i).album_images)
                         ELSE None)
               /\ (carried # None /\ url # carried) =>
                      (HydArtist(i).images # <<>> /\ url = Head(HydArtist(i).images))

\* One item keeps the image it carried although its track has album art
\* and no artist image was found, another that carried none gets the album
\* art of the same track.
C36_Witness ==
    /\ last.op = "hydrate"
    /\ \E i \in DOMAIN last.payload.items :
           /\ last.req[1][i].image_url = "own"
           /\ HydTrack(i).album_images # <<>>
           /\ HydArtist(i).images = <<>>
           /\ last.payload.items[i].image_url = "own"
    /\ \E j \in DOMAIN last.payload.items :
           /\ last.req[1][j].image_url = None
           /\ last.payload.items[j].image_url = "art_t1"

\* C38: in the album view every item leaves hydration with the
\* representative track id determined for that item itself (none when it
\* has none), also when another item has the same album name under another
\* artist.
C38_EachAlbumItemGetsItsOwnRepresentative ==
    (last.op = "hydrate" /\ last.req[2] = "album") =>
        \A i \in DOMAIN last.payload.items :
            last.payload.items[i].representative_track_id
                = representative(last.req[1][i], last.req[2], last.req[3])

\* The frames an upload installs and the frames the default source gives.
UploadedFrames == {prepare_history_dataframe(file).df : file \in UploadFiles}
DefaultFrames == {load_df(source).df : source \in DefaultSources}

\* C39: whenever no dataset operation is in progress and a snapshot is
\* active, the source label is "uploaded" exactly when the snapshot is the
\* uploaded dataset and "default" exactly when it was loaded from the
\* default source, whatever the interleaving of upload, revert, clear_cache
\* and lazy load before.
C39_SourceLabelDescribesTheSnapshot ==
    ((unit = "race" => Quiescent) /\ Store.df_cache # None) =>
        /\ Store.data_source = "uploaded" <=> Store.df_cache \in UploadedFrames
        /\ Store.data_source = "default" <=> Store.df_cache \in DefaultFrames

====
